---- MODULE Spec2Model ----
(***************************************************************************)
(* Antigravity Architect (antigravity_master_setup.py): the brain-dump     *)
(* assimilator and the file helpers it uses, over a filesystem of paths    *)
(* and file contents.  Texts, paths and keywords are sequences of          *)
(* one-character strings, so that the regular expressions of the source    *)
(* (heading split, strip, word-boundary search, slugify) are computed      *)
(* character by character.                                                 *)
(***************************************************************************)
EXTENDS Integers, Sequences, FiniteSets, TLC

\* ------------------------------------------------------------------ bounds
\* Longest source document, in lines.
MaxLines == 3

\* Number of calls in one behaviour: process_brain_dump calls that read
\* their source, write_file calls, doctor_project calls, sanitize_name
\* calls, runs of main.
MaxRuns == 2

\* Longest text handed to identify_category, in words.
MaxWords == 3

\* Longest project name handed to sanitize_name, in characters.
MaxName == 3

\* ------------------------------------------------------ characters, strings
UpperChars ==
  <<"A", "B", "C", "D", "E", "F", "G", "H", "I", "J", "K", "L", "M",
    "N", "O", "P", "Q", "R", "S", "T", "U", "V", "W", "X", "Y", "Z">>

LowerChars ==
  <<"a", "b", "c", "d", "e", "f", "g", "h", "i", "j", "k", "l", "m",
    "n", "o", "p", "q", "r", "s", "t", "u", "v", "w", "x", "y", "z">>

Digits == {"0", "1", "2", "3", "4", "5", "6", "7", "8", "9"}

Range(s) == {s[i] : i \in 1..Len(s)}

UpperSet == Range(UpperChars)

LowerSet == Range(LowerChars)

Letters == UpperSet \cup LowerSet

\* [a-zA-Z0-9]
Alnums == Letters \cup Digits

\* The whitespace characters a text can hold here.
Whitespace == {" ", "\t", "\n", "\r", "\f"}

\* \s of the re module, on the characters a text can hold here.
IsSpace(c) == c \in Whitespace

IsAlnum(c) == c \in Alnums

\* The Kelvin sign U+212A, one character: a letter outside ASCII whose
\* str.lower() is the ASCII letter k.
KelvinSign == "U+212A"

\* \w of the re module: a word boundary \b lies between \w and non-\w.
IsWordChar(c) == IsAlnum(c) \/ c = "_" \/ c = KelvinSign

\* str.lower(), one character.
LowerChar(c) ==
  IF c \in UpperSet
    THEN LowerChars[CHOOSE i \in 1..Len(UpperChars) : UpperChars[i] = c]
    ELSE IF c = KelvinSign THEN "k"
    ELSE c

\* str.upper(), one character.
UpperChar(c) ==
  IF c \in LowerSet
    THEN UpperChars[CHOOSE i \in 1..Len(LowerChars) : LowerChars[i] = c]
    ELSE c

\* str.lower()
Lower(s) == SubSeq([i \in 1..Len(s) |-> LowerChar(s[i])], 1, Len(s))

\* The characters of s at the positions keep, in order.
AtPositions(s, keep) ==
  SubSeq([k \in 1..Cardinality(keep) |->
            s[CHOOSE i \in keep : Cardinality({j \in keep : j <= i}) = k]],
         1, Cardinality(keep))

\* str.strip(): drop leading and trailing whitespace.
Strip(s) ==
  IF \A i \in 1..Len(s) : IsSpace(s[i]) THEN <<>>
  ELSE SubSeq(s,
         CHOOSE i \in 1..Len(s) :
           ~IsSpace(s[i]) /\ \A j \in 1..(i - 1) : IsSpace(s[j]),
         CHOOSE i \in 1..Len(s) :
           ~IsSpace(s[i]) /\ \A j \in (i + 1)..Len(s) : IsSpace(s[j]))

\* s[i:] starts with k.
StartsWithAt(s, i, k) ==
  /\ i + Len(k) - 1 <= Len(s)
  /\ \A j \in 1..Len(k) : s[i + j - 1] = k[j]

\* s contains k (the Python test: k in s)
Contains(s, k) == \E i \in 1..(Len(s) - Len(k) + 1) : StartsWithAt(s, i, k)

\* pre is a prefix of s.
IsPrefix(pre, s) == Len(pre) <= Len(s) /\ SubSeq(s, 1, Len(pre)) = pre

\* Concatenation of a sequence of strings.
RECURSIVE Concat(_)
Concat(ss) == IF ss = <<>> THEN <<>> ELSE Head(ss) \o Concat(Tail(ss))

\* n copies of s.
RECURSIVE Repeat(_, _)
Repeat(s, n) == IF n = 0 THEN <<>> ELSE s \o Repeat(s, n - 1)

\* The positions of s where a word begins: a word character that is the
\* first of s or follows a non-word character (\b before a word character).
WordStarts(s) ==
  {i \in 1..Len(s) : IsWordChar(s[i]) /\ (i = 1 \/ ~IsWordChar(s[i - 1]))}

\* A match of \b k \b at position i of s; k begins and ends with a word
\* character, as every keyword of the tables does, so that i is a word start
\* and the match ends where a word ends.
WordMatchAt(s, i, k) ==
  /\ StartsWithAt(s, i, k)
  /\ i = 1 \/ ~IsWordChar(s[i - 1])
  /\ i + Len(k) - 1 = Len(s) \/ ~IsWordChar(s[i + Len(k)])

\* The positions where \b k \b matches s.
WordMatches(s, starts, k) == {i \in starts : WordMatchAt(s, i, k)}

\* The number of matches re.findall keeps of the candidate positions ms:
\* it takes them left to right and skips a match that overlaps the last
\* one taken (from is the first position still free).
RECURSIVE CountNonOverlapping(_, _, _)
CountNonOverlapping(ms, from, n) ==
  LET rest == {i \in ms : i >= from}
  IN  IF rest = {} THEN 0
      ELSE LET m == CHOOSE i \in rest : \A j \in rest : i <= j
           IN  1 + CountNonOverlapping(rest, m + n, n)

\* len(re.findall(r"\b" + re.escape(k) + r"\b", s)), starts = WordStarts(s)
FindAllCount(s, starts, k) ==
  CountNonOverlapping(WordMatches(s, starts, k), 1, Len(k))

\* re.search(r"\b" + re.escape(k) + r"\b", s) is not None
ReSearchWord(s, starts, k) == \E i \in starts : WordMatchAt(s, i, k)

\* ----------------------------------------------------------- resource tables
\* AntigravityResources.AGENT_DIR
AGENT_DIR == <<".", "a", "g", "e", "n", "t">>

\* Keys of AntigravityResources.GITIGNORE_MAP, in declaration order.
GITIGNORE_MAP_keys ==
  <<
     <<"p", "y", "t", "h", "o", "n">>, <<"n", "o", "d", "e">>,
     <<"d", "o", "c", "k", "e", "r">>, <<"p", "o", "s", "t", "g", "r", "e", "s">>,
     <<"r", "e", "a", "c", "t">>, <<"n", "e", "x", "t", "j", "s">>,
     <<"m", "a", "c", "o", "s">>, <<"w", "i", "n", "d", "o", "w", "s">>,
     <<"l", "i", "n", "u", "x">>, <<"v", "s", "c", "o", "d", "e">>, <<"g", "i", "t", "e", "a">>
  >>
\* Keys of AntigravityResources.NIX_PACKAGE_MAP, in declaration order.
NIX_PACKAGE_MAP_keys ==
  <<
     <<"p", "y", "t", "h", "o", "n">>, <<"n", "o", "d", "e">>,
     <<"d", "o", "c", "k", "e", "r">>, <<"s", "q", "l">>
  >>
\* AntigravityResources.TECH_ALIASES, in declaration order.
TECH_ALIASES ==
  <<
    [primary |-> <<"p", "y", "t", "h", "o", "n">>,
     aliases |-> <<
       <<"d", "j", "a", "n", "g", "o">>, <<"f", "l", "a", "s", "k">>,
       <<"f", "a", "s", "t", "a", "p", "i">>, <<"n", "u", "m", "p", "y">>,
       <<"p", "a", "n", "d", "a", "s">>, <<"p", "y", "t", "o", "r", "c", "h">>,
       <<"t", "e", "n", "s", "o", "r", "f", "l", "o", "w">>, <<"s", "c", "i", "p", "y">>,
       <<"p", "y", "t", "e", "s", "t">>, <<"p", "o", "e", "t", "r", "y">>
     >>],
    [primary |-> <<"n", "o", "d", "e">>,
     aliases |-> <<
       <<"j", "a", "v", "a", "s", "c", "r", "i", "p", "t">>,
       <<"t", "y", "p", "e", "s", "c", "r", "i", "p", "t">>, <<"r", "e", "a", "c", "t">>,
       <<"v", "u", "e">>, <<"s", "v", "e", "l", "t", "e">>,
       <<"s", "v", "e", "l", "t", "e", "k", "i", "t">>, <<"n", "e", "x", "t", "j", "s">>,
       <<"e", "x", "p", "r", "e", "s", "s">>, <<"n", "e", "s", "t">>, <<"n", "p", "m">>,
       <<"y", "a", "r", "n">>, <<"p", "n", "p", "m">>
     >>],
    [primary |-> <<"d", "o", "c", "k", "e", "r">>,
     aliases |-> <<
       <<"c", "o", "n", "t", "a", "i", "n", "e", "r">>,
       <<"d", "o", "c", "k", "e", "r", "f", "i", "l", "e">>,
       <<"d", "o", "c", "k", "e", "r", "-", "c", "o", "m", "p", "o", "s", "e">>,
       <<"k", "u", "b", "e", "r", "n", "e", "t", "e", "s">>, <<"k", "8", "s">>
     >>],
    [primary |-> <<"s", "q", "l">>,
     aliases |-> <<
       <<"p", "o", "s", "t", "g", "r", "e", "s">>,
       <<"p", "o", "s", "t", "g", "r", "e", "s", "q", "l">>, <<"s", "q", "l", "i", "t", "e">>,
       <<"m", "y", "s", "q", "l">>, <<"m", "a", "r", "i", "a", "d", "b">>,
       <<"o", "r", "a", "c", "l", "e">>, <<"d", "b", "2">>
     >>],
    [primary |-> <<"c", "l", "o", "u", "d">>,
     aliases |-> <<
       <<"a", "w", "s">>, <<"a", "z", "u", "r", "e">>, <<"g", "c", "p">>,
       <<"g", "o", "o", "g", "l", "e", " ", "c", "l", "o", "u", "d">>,
       <<"l", "a", "m", "b", "d", "a">>, <<"s", "3">>, <<"e", "c", "2">>
     >>]
  >>
\* AntigravityResources.CLASSIFICATION_RULES, in declaration order.
CLASSIFICATION_RULES ==
  <<
    [category |-> "rules",
     keywords |-> <<
       <<"a", "l", "w", "a", "y", "s">>, <<"n", "e", "v", "e", "r">>, <<"m", "u", "s", "t">>,
       <<"s", "t", "y", "l", "e">>, <<"c", "o", "n", "v", "e", "n", "t", "i", "o", "n">>,
       <<"s", "t", "a", "n", "d", "a", "r", "d">>, <<"p", "r", "o", "t", "o", "c", "o", "l">>,
       <<"p", "o", "l", "i", "c", "y">>, <<"l", "i", "n", "t">>,
       <<"f", "o", "r", "m", "a", "t", "t", "i", "n", "g">>,
       <<"s", "e", "c", "u", "r", "i", "t", "y">>
     >>],
    [category |-> "workflows",
     keywords |-> <<
       <<"s", "t", "e", "p">>, <<"g", "u", "i", "d", "e">>,
       <<"p", "r", "o", "c", "e", "s", "s">>, <<"w", "o", "r", "k", "f", "l", "o", "w">>,
       <<"h", "o", "w", "-", "t", "o">>, <<"d", "e", "p", "l", "o", "y">>,
       <<"s", "e", "t", "u", "p">>, <<"r", "u", "n">>,
       <<"e", "x", "e", "c", "u", "t", "i", "o", "n">>, <<"p", "l", "a", "n">>,
       <<"r", "o", "a", "d", "m", "a", "p">>
     >>],
    [category |-> "skills",
     keywords |-> <<
       <<"c", "o", "m", "m", "a", "n", "d">>, <<"c", "l", "i">>, <<"t", "o", "o", "l">>,
       <<"u", "s", "a", "g", "e">>, <<"u", "t", "i", "l", "i", "t", "y">>,
       <<"s", "c", "r", "i", "p", "t">>, <<"a", "u", "t", "o", "m", "a", "t", "i", "o", "n">>,
       <<"f", "l", "a", "g", "s">>, <<"a", "r", "g", "u", "m", "e", "n", "t", "s">>,
       <<"t", "e", "r", "m", "i", "n", "a", "l">>
     >>],
    [category |-> "docs",
     keywords |-> <<
       <<"o", "v", "e", "r", "v", "i", "e", "w">>,
       <<"a", "r", "c", "h", "i", "t", "e", "c", "t", "u", "r", "e">>,
       <<"i", "n", "t", "r", "o", "d", "u", "c", "t", "i", "o", "n">>,
       <<"b", "a", "c", "k", "g", "r", "o", "u", "n", "d">>,
       <<"c", "o", "n", "t", "e", "x", "t">>, <<"d", "i", "a", "g", "r", "a", "m">>,
       <<"c", "o", "n", "c", "e", "p", "t">>, <<"s", "u", "m", "m", "a", "r", "y">>
     >>]
  >>
\* The category names, in the declaration (dict iteration) order.
Categories ==
  SubSeq([i \in 1..Len(CLASSIFICATION_RULES) |-> CLASSIFICATION_RULES[i].category],
         1, Len(CLASSIFICATION_RULES))

\* ------------------------------------------------------------------- engine
\* AntigravityEngine.slugify_title
StripHeaderMarkers(title) ==
  \* re.sub(r"^#+\s*", "", title): anchored at the start of the string only
  IF title = <<>> \/ title[1] # "#" THEN title
  ELSE LET n == Len(title)
           h == CHOOSE j \in 1..n :
                  /\ \A x \in 1..j : title[x] = "#"
                  /\ j = n \/ title[j + 1] # "#"
           w == CHOOSE j \in h..n :
                  /\ \A x \in (h + 1)..j : IsSpace(title[x])
                  /\ j = n \/ ~IsSpace(title[j + 1])
       IN  SubSeq(title, w + 1, n)

\* re.sub(r"_+", "_", s)
CollapseUnderscores(s) ==
  AtPositions(s, {i \in 1..Len(s) : ~(s[i] = "_" /\ i > 1 /\ s[i - 1] = "_")})

\* str.strip("_")
StripUnderscores(s) ==
  IF \A i \in 1..Len(s) : s[i] = "_" THEN <<>>
  ELSE SubSeq(s,
         CHOOSE i \in 1..Len(s) :
           s[i] # "_" /\ \A j \in 1..(i - 1) : s[j] = "_",
         CHOOSE i \in 1..Len(s) :
           s[i] # "_" /\ \A j \in (i + 1)..Len(s) : s[j] = "_")

\* slugify_title without the cut at 50 characters.
slugify_title_uncut(title) ==
  LET s1 == StripHeaderMarkers(title)
      s2 == SubSeq([i \in 1..Len(s1) |->
                      IF IsAlnum(LowerChar(s1[i])) THEN LowerChar(s1[i]) ELSE "_"],
                   1, Len(s1))
      s3 == CollapseUnderscores(s2)
      s4 == StripUnderscores(s3)
  IN  IF s4 = <<>> THEN <<"u", "n", "t", "i", "t", "l", "e", "d">> ELSE s4

slugify_title(title) ==
  LET s1 == StripHeaderMarkers(title)
      s2 == SubSeq([i \in 1..Len(s1) |->
                      IF IsAlnum(LowerChar(s1[i])) THEN LowerChar(s1[i]) ELSE "_"],
                   1, Len(s1))
      s3 == CollapseUnderscores(s2)
      s4 == StripUnderscores(s3)
      s5 == IF s4 = <<>> THEN <<"u", "n", "t", "i", "t", "l", "e", "d">> ELSE s4
  IN  SubSeq(s5, 1, IF Len(s5) < 50 THEN Len(s5) ELSE 50)

\* os.path.join(a, b) for a relative b
PathJoin(a, b) == a \o <<"/">> \o b

\* os.path.dirname(path)
Dirname(path) ==
  IF \A i \in 1..Len(path) : path[i] # "/" THEN <<>>
  ELSE SubSeq(path, 1,
         (CHOOSE i \in 1..Len(path) :
            path[i] = "/" /\ \A j \in (i + 1)..Len(path) : path[j] # "/") - 1)

\* The directories os.makedirs(d, exist_ok=True) makes sure exist: d and
\* every ancestor of d.
MakeDirs(d) ==
  IF d = <<>> THEN {}
  ELSE {d} \cup {SubSeq(d, 1, i - 1) : i \in {j \in 2..Len(d) : d[j] = "/"}}

\* os.path.exists(path) on a disk [files, dirs]
PathExists(disk, path) == path \in DOMAIN disk.files \/ path \in disk.dirs

\* The mapping f with f[k] set to v (k is added when missing).
Put(f, k, v) == (k :> v) @@ f

\* open(path, "w") or open(path, "a") raises OSError: the disk refuses the
\* path (permissions, disk full), or the path is a directory.
OpenFails(disk, path) == path \in disk.denied \/ path \in disk.dirs

\* os.makedirs(os.path.dirname(path), exist_ok=True) raises OSError: a file
\* stands where a directory is needed.
MakeDirsFails(disk, path) ==
  MakeDirs(Dirname(path)) \cap DOMAIN disk.files # {}

\* write_file that replaces the file whatever exist_ok says.
write_file_overwriting(disk, path, content, exist_ok) ==
  IF MakeDirsFails(disk, path) THEN disk
  ELSE IF OpenFails(disk, path)
    THEN [disk EXCEPT !.dirs = disk.dirs \cup MakeDirs(Dirname(path))]
    ELSE [disk EXCEPT !.files = Put(disk.files, path, Strip(content) \o <<"\n">>),
                      !.dirs  = disk.dirs \cup MakeDirs(Dirname(path))]

\* AntigravityEngine.write_file: the disk after the call.  A file that
\* exists is skipped under exist_ok; the parent directories are made before
\* the file is opened, so they stay when the open fails.
write_file(disk, path, content, exist_ok) ==
  IF exist_ok /\ PathExists(disk, path) THEN disk
  ELSE IF MakeDirsFails(disk, path) THEN disk
  ELSE IF OpenFails(disk, path)
    THEN [disk EXCEPT !.dirs = disk.dirs \cup MakeDirs(Dirname(path))]
    ELSE [disk EXCEPT !.files = Put(disk.files, path, Strip(content) \o <<"\n">>),
                      !.dirs  = disk.dirs \cup MakeDirs(Dirname(path))]

\* AntigravityEngine.write_file: the value returned, False when the
\* OSError was caught.
write_file_ok(disk, path, content, exist_ok) ==
  \/ exist_ok /\ PathExists(disk, path)
  \/ ~MakeDirsFails(disk, path) /\ ~OpenFails(disk, path)

\* append_file opening the file with mode "w".
append_file_truncating(disk, path, content) ==
  [disk EXCEPT
     !.files = Put(disk.files, path, <<"\n", "\n">> \o Strip(content) \o <<"\n">>),
     !.dirs  = disk.dirs \cup MakeDirs(Dirname(path))]

\* append_file skipping a block that the file already holds.
append_file_dedupe(disk, path, content) ==
  LET old == IF path \in DOMAIN disk.files THEN disk.files[path] ELSE <<>>
  IN  IF Contains(old, Strip(content)) THEN disk
      ELSE [disk EXCEPT
              !.files = Put(disk.files, path,
                            old \o <<"\n", "\n">> \o Strip(content) \o <<"\n">>),
              !.dirs  = disk.dirs \cup MakeDirs(Dirname(path))]

\* append_file writing the new block before the old content.
append_file_prepend(disk, path, content) ==
  LET old == IF path \in DOMAIN disk.files THEN disk.files[path] ELSE <<>>
  IN  [disk EXCEPT
         !.files = Put(disk.files, path,
                       <<"\n", "\n">> \o Strip(content) \o <<"\n">> \o old),
         !.dirs  = disk.dirs \cup MakeDirs(Dirname(path))]

\* AntigravityEngine.append_file: the disk after the call.  The parent
\* directories are made before the file is opened.
append_file(disk, path, content) ==
  LET old == IF path \in DOMAIN disk.files THEN disk.files[path] ELSE <<>>
  IN  IF MakeDirsFails(disk, path) THEN disk
      ELSE IF OpenFails(disk, path)
        THEN [disk EXCEPT !.dirs = disk.dirs \cup MakeDirs(Dirname(path))]
        ELSE [disk EXCEPT
                !.files = Put(disk.files, path,
                              old \o <<"\n", "\n">> \o Strip(content) \o <<"\n">>),
                !.dirs  = disk.dirs \cup MakeDirs(Dirname(path))]

\* AntigravityEngine.append_file: the value returned.
append_file_ok(disk, path, content) ==
  ~MakeDirsFails(disk, path) /\ ~OpenFails(disk, path)
\* -------------------------------------------------------------- assimilator
\* primary_sources of detect_tech_stack: the keys of the two maps.
primary_sources == Range(GITIGNORE_MAP_keys) \cup Range(NIX_PACKAGE_MAP_keys)

\* detect_tech_stack adding the alias that matched next to its primary.
detect_tech_stack_alias_too(text) ==
  LET text_lower == Lower(text)
      starts  == WordStarts(text_lower)
  IN  {k \in primary_sources : ReSearchWord(text_lower, starts, k)}
        \cup UNION {UNION {{TECH_ALIASES[r].primary, a} :
                             a \in {b \in Range(TECH_ALIASES[r].aliases) :
                                      ReSearchWord(text_lower, starts, b)}} :
                      r \in 1..Len(TECH_ALIASES)}

\* detect_tech_stack without the alias loop.
detect_tech_stack_noalias(text) ==
  LET text_lower == Lower(text)
      starts  == WordStarts(text_lower)
  IN  {k \in primary_sources : ReSearchWord(text_lower, starts, k)}

\* AntigravityAssimilator.detect_tech_stack: the detected set (the code
\* returns list(detected), whose order is the set's).
detect_tech_stack(text) ==
  LET text_lower == Lower(text)
      starts  == WordStarts(text_lower)
      direct  == {k \in primary_sources : ReSearchWord(text_lower, starts, k)}
      aliased == {TECH_ALIASES[i].primary : i \in
                    {j \in 1..Len(TECH_ALIASES) :
                       \E a \in Range(TECH_ALIASES[j].aliases) :
                          ReSearchWord(text_lower, starts, a)}}
  IN  direct \cup aliased

\* str.title(): a letter is upper-cased after a non-letter, lower-cased
\* after a letter.
Title(s) ==
  SubSeq([i \in 1..Len(s) |->
            IF i = 1 \/ s[i - 1] \notin Letters
              THEN UpperChar(s[i]) ELSE LowerChar(s[i])],
         1, Len(s))

\* a < b for keywords made of lower-case letters (str comparison).
LetterOrd(c) == CHOOSE i \in 1..Len(LowerChars) : LowerChars[i] = c

StrLess(a, b) ==
  \E n \in 0..Len(a) :
     /\ n <= Len(b)
     /\ \A i \in 1..n : a[i] = b[i]
     /\ \/ n = Len(a) /\ n < Len(b)
        \/ n < Len(a) /\ n < Len(b) /\ LetterOrd(a[n + 1]) < LetterOrd(b[n + 1])

\* sorted(S) for a set of such strings.
RECURSIVE Sorted(_)
Sorted(S) ==
  IF S = {} THEN <<>>
  ELSE LET m == CHOOSE x \in S : \A y \in S \ {x} : StrLess(x, y)
       IN  <<m>> \o Sorted(S \ {m})

\* observation_map of build_tech_deep_dive, in declaration order.
observation_map ==
  << [key |-> <<"a", "r", "c", "h", "i", "t", "e", "c", "t", "u", "r", "e">>, obs |-> "structural"],
     [key |-> <<"s", "e", "c", "u", "r", "i", "t", "y">>, obs |-> "security"],
     [key |-> <<"a", "u", "t", "h">>, obs |-> "security"],
     [key |-> <<"d", "a", "t", "a", "b", "a", "s", "e">>, obs |-> "persistence"],
     [key |-> <<"s", "q", "l">>, obs |-> "persistence"],
     [key |-> <<"a", "p", "i">>, obs |-> "api"],
     [key |-> <<"e", "n", "d", "p", "o", "i", "n", "t">>, obs |-> "api"] >>

\* The observation sentences, in sorted order.
observation_text ==
  << [obs |-> "api",
      text |-> <<"A", "P", "I", " ", "s", "u", "r", "f", "a", "c", "e", "s", " ", "o", "r", " ", "i", "n", "t", "e", "g", "r", "a", "t", "i", "o", "n", "s", " ", "i", "d", "e", "n", "t", "i", "f", "i", "e", "d", ".">>],
     [obs |-> "persistence",
      text |-> <<"D", "a", "t", "a", " ", "p", "e", "r", "s", "i", "s", "t", "e", "n", "c", "e", " ", "l", "a", "y", "e", "r", "s", " ", "i", "d", "e", "n", "t", "i", "f", "i", "e", "d", ".">>],
     [obs |-> "security",
      text |-> <<"S", "e", "c", "u", "r", "i", "t", "y", "-", "s", "e", "n", "s", "i", "t", "i", "v", "e", " ", "c", "o", "m", "p", "o", "n", "e", "n", "t", "s", " ", "o", "r", " ", "r", "e", "q", "u", "i", "r", "e", "m", "e", "n", "t", "s", " ", "i", "d", "e", "n", "t", "i", "f", "i", "e", "d", ".">>],
     [obs |-> "structural",
      text |-> <<"S", "t", "r", "u", "c", "t", "u", "r", "a", "l", " ", "a", "r", "c", "h", "i", "t", "e", "c", "t", "u", "r", "a", "l", " ", "s", "p", "e", "c", "i", "f", "i", "c", "a", "t", "i", "o", "n", "s", " ", "d", "e", "t", "e", "c", "t", "e", "d", ".">>] >>

\* debt_keywords of build_tech_deep_dive, in declaration order.
debt_keywords ==
  << <<"t", "o", "d", "o">>, <<"f", "i", "x", "m", "e">>, <<"r", "e", "f", "a", "c", "t", "o", "r">>, <<"d", "e", "p", "r", "e", "c", "a", "t", "e", "d">>, <<"l", "e", "g", "a", "c", "y">>,
     <<"o", "p", "t", "i", "m", "i", "z", "a", "t", "i", "o", "n", " ", "n", "e", "e", "d", "e", "d">> >>

\* AntigravityAssimilator.build_tech_deep_dive (the emoji that open the
\* four headings and the backquotes of the last sentence are left out).
build_tech_deep_dive(keywords, full_text) ==
  LET text_lower == Lower(full_text)
      sortedKw == Sorted(keywords)
      primary == Concat([i \in 1..Len(sortedKw) |->
                   <<"-", " ", "*", "*">> \o Title(sortedKw[i]) \o <<"*", "*">> \o <<"\n">>])
      observations == {observation_map[i].obs : i \in
                         {j \in 1..Len(observation_map) :
                            Contains(text_lower, observation_map[j].key)}}
      obsLines == Concat([i \in 1..Len(observation_text) |->
                    IF observation_text[i].obs \in observations
                      THEN <<"-", " ">> \o observation_text[i].text \o <<"\n">>
                      ELSE <<>>])
      debtLines == Concat([i \in 1..Len(debt_keywords) |->
                     IF Contains(text_lower, debt_keywords[i])
                       THEN <<"-", " ">> \o Title(debt_keywords[i]) \o <<"\n">>
                       ELSE <<>>])
  IN  <<"#", " ", "T", "e", "c", "h", "n", "i", "c", "a", "l", " ", "S", "t", "a", "c", "k", " ", "D", "e", "e", "p", "-", "D", "i", "v", "e">> \o <<"\n", "\n">>
      \o <<"#", "#", " ", "P", "r", "i", "m", "a", "r", "y", " ", "T", "e", "c", "h", "n", "o", "l", "o", "g", "i", "e", "s">> \o <<"\n">>
      \o primary
      \o <<"\n">> \o <<"#", "#", " ", "C", "o", "n", "t", "e", "x", "t", "u", "a", "l", " ", "O", "b", "s", "e", "r", "v", "a", "t", "i", "o", "n", "s">> \o <<"\n">>
      \o (IF observations # {} THEN obsLines
          ELSE <<"-", " ", "S", "t", "a", "n", "d", "a", "r", "d", " ", "p", "r", "o", "j", "e", "c", "t", " ", "s", "t", "r", "u", "c", "t", "u", "r", "e", " ", "w", "i", "t", "h", " ", "g", "e", "n", "e", "r", "i", "c", " ", "t", "e", "c", "h", " ", "s", "t", "a", "c", "k", ".">> \o <<"\n">>)
      \o <<"\n">> \o <<"#", "#", " ", "T", "e", "c", "h", "n", "i", "c", "a", "l", " ", "D", "e", "b", "t", " ", "&", " ", "T", "r", "a", "c", "k", "i", "n", "g">> \o <<"\n">>
      \o (IF debtLines # <<>>
          THEN <<"P", "o", "t", "e", "n", "t", "i", "a", "l", " ", "t", "e", "c", "h", "n", "i", "c", "a", "l", " ", "d", "e", "b", "t", " ", "o", "r", " ", "o", "p", "t", "i", "m", "i", "z", "a", "t", "i", "o", "n", " ", "a", "r", "e", "a", "s", " ", "i", "d", "e", "n", "t", "i", "f", "i", "e", "d", ":">>
               \o <<"\n">> \o debtLines
          ELSE <<"N", "o", " ", "i", "m", "m", "e", "d", "i", "a", "t", "e", " ", "t", "e", "c", "h", "n", "i", "c", "a", "l", " ", "d", "e", "b", "t", " ", "k", "e", "y", "w", "o", "r", "d", "s", " ", "i", "d", "e", "n", "t", "i", "f", "i", "e", "d", " ", "i", "n", " ", "s", "o", "u", "r", "c", "e", " ", "d", "o", "c", "u", "m", "e", "n", "t", "s", ".">>
               \o <<"\n">>)
      \o <<"\n">> \o <<"#", "#", " ", "A", "g", "e", "n", "t", " ", "I", "n", "t", "e", "r", "a", "c", "t", "i", "o", "n", " ", "M", "a", "p">> \o <<"\n">>
      \o <<"A", "g", "e", "n", "t", "s", " ", "s", "h", "o", "u", "l", "d", " ", "p", "r", "i", "o", "r", "i", "t", "i", "z", "e", " ", "r", "u", "l", "e", "s", " ", "i", "n", " ", ".", "a", "g", "e", "n", "t", "/", "r", "u", "l", "e", "s", "/", " ", "a", "n", "d", " ", "u", "s", "e", " ", "T", "E", "C", "H", "_", "S", "T", "A", "C", "K", ".", "m", "d", " ", "a", "s", " ", "t", "h", "e", " ", "p", "r", "i", "m", "a", "r", "y", " ", "a", "r", "c", "h", "i", "t", "e", "c", "t", "u", "r", "a", "l", " ", "r", "e", "f", "e", "r", "e", "n", "c", "e", ".">>
      \o <<"\n">>

\* Sum of a sequence of numbers.
RECURSIVE SumSeq(_)
SumSeq(ns) == IF ns = <<>> THEN 0 ELSE Head(ns) + SumSeq(Tail(ns))

\* scores[category] of identify_category, by position in CLASSIFICATION_RULES.
CategoryScores(text) ==
  LET text_lower == Lower(text)
      starts == WordStarts(text_lower)
  IN  SubSeq([c \in 1..Len(CLASSIFICATION_RULES) |->
                SumSeq([j \in 1..Len(CLASSIFICATION_RULES[c].keywords) |->
                          FindAllCount(text_lower, starts,
                                       CLASSIFICATION_RULES[c].keywords[j])])],
             1, Len(CLASSIFICATION_RULES))

\* max(...) taking the last of the keys with the greatest score.
FirstMax_last(scores) ==
  CHOOSE c \in 1..Len(scores) :
    /\ \A d \in 1..Len(scores) : scores[d] <= scores[c]
    /\ \A d \in (c + 1)..Len(scores) : scores[d] < scores[c]

\* max(scores, key=...): the first key, in iteration order, whose score is
\* the greatest.
FirstMax(scores) ==
  CHOOSE c \in 1..Len(scores) :
    /\ \A d \in 1..Len(scores) : scores[d] <= scores[c]
    /\ \A d \in 1..(c - 1) : scores[d] < scores[c]

\* AntigravityAssimilator.identify_category
identify_category(text) ==
  LET scores == CategoryScores(text)
      best_cat == FirstMax(scores)
  IN  IF scores[best_cat] = 0 THEN "docs" ELSE Categories[best_cat]

\* get_destination_path with a skill kept as a file of the skills folder.
get_destination_path_flat(base_dir, category, safe_title) ==
  LET docs == PathJoin(PathJoin(PathJoin(base_dir, <<"d", "o", "c", "s">>), <<"i", "m", "p", "o", "r", "t", "e", "d">>),
                       safe_title \o <<".", "m", "d">>)
  IN  CASE category = "rules" ->
             PathJoin(PathJoin(PathJoin(base_dir, AGENT_DIR), <<"r", "u", "l", "e", "s">>),
                      <<"i", "m", "p", "o", "r", "t", "e", "d", "_">> \o safe_title \o <<".", "m", "d">>)
        [] category = "workflows" ->
             PathJoin(PathJoin(PathJoin(base_dir, AGENT_DIR), <<"w", "o", "r", "k", "f", "l", "o", "w", "s">>),
                      <<"i", "m", "p", "o", "r", "t", "e", "d", "_">> \o safe_title \o <<".", "m", "d">>)
        [] category = "skills" ->
             PathJoin(PathJoin(PathJoin(base_dir, AGENT_DIR), <<"s", "k", "i", "l", "l", "s">>),
                      <<"i", "m", "p", "o", "r", "t", "e", "d", "_">> \o safe_title \o <<".", "m", "d">>)
        [] OTHER -> docs

\* AntigravityAssimilator.get_destination_path
get_destination_path(base_dir, category, safe_title) ==
  LET docs == PathJoin(PathJoin(PathJoin(base_dir, <<"d", "o", "c", "s">>), <<"i", "m", "p", "o", "r", "t", "e", "d">>),
                       safe_title \o <<".", "m", "d">>)
  IN  CASE category = "rules" ->
             PathJoin(PathJoin(PathJoin(base_dir, AGENT_DIR), <<"r", "u", "l", "e", "s">>),
                      <<"i", "m", "p", "o", "r", "t", "e", "d", "_">> \o safe_title \o <<".", "m", "d">>)
        [] category = "workflows" ->
             PathJoin(PathJoin(PathJoin(base_dir, AGENT_DIR), <<"w", "o", "r", "k", "f", "l", "o", "w", "s">>),
                      <<"i", "m", "p", "o", "r", "t", "e", "d", "_">> \o safe_title \o <<".", "m", "d">>)
        [] category = "skills" ->
             PathJoin(PathJoin(PathJoin(PathJoin(base_dir, AGENT_DIR), <<"s", "k", "i", "l", "l", "s">>),
                               <<"i", "m", "p", "o", "r", "t", "e", "d", "_">> \o safe_title), <<"S", "K", "I", "L", "L", ".", "m", "d">>)
        [] category = "docs" -> docs
        [] OTHER -> docs

\* The end of the match of ^#+\s+.*$ (re.MULTILINE) that starts at position
\* i of text, or 0 when the pattern does not match there.  Each of #+, \s+
\* and .* takes all it can: \s+ runs over newlines, .* stops before a
\* newline, where $ then matches.
HeadingEndAt(text, i) ==
  LET n == Len(text)
  IN  IF ~(i = 1 \/ text[i - 1] = "\n") \/ text[i] # "#" THEN 0
      ELSE LET h == CHOOSE j \in i..n :
                      /\ \A x \in i..j : text[x] = "#"
                      /\ j = n \/ text[j + 1] # "#"
               w == CHOOSE j \in h..n :
                      /\ \A x \in (h + 1)..j : IsSpace(text[x])
                      /\ j = n \/ ~IsSpace(text[j + 1])
               e == CHOOSE j \in w..n :
                      /\ \A x \in (w + 1)..j : text[x] # "\n"
                      /\ j = n \/ text[j + 1] = "\n"
           IN  IF w = h THEN 0 ELSE e

\* The split that leaves out the character after each heading.
RECURSIVE SplitFrom_dropsep(_, _)
SplitFrom_dropsep(text, pos) ==
  LET found == {i \in pos..Len(text) : HeadingEndAt(text, i) # 0}
  IN  IF found = {} THEN <<SubSeq(text, pos, Len(text))>>
      ELSE LET m == CHOOSE i \in found : \A j \in found : i <= j
               e == HeadingEndAt(text, m)
           IN  <<SubSeq(text, pos, m - 1), SubSeq(text, m, e)>>
               \o SplitFrom_dropsep(text, e + 2)

\* re.split(r"(^#+\s+.*$)", text, flags=re.MULTILINE) from position pos on:
\* the text up to the next match, the match, and the split of the rest.
RECURSIVE SplitFrom(_, _)
SplitFrom(text, pos) ==
  LET found == {i \in pos..Len(text) : HeadingEndAt(text, i) # 0}
  IN  IF found = {} THEN <<SubSeq(text, pos, Len(text))>>
      ELSE LET m == CHOOSE i \in found : \A j \in found : i <= j
               e == HeadingEndAt(text, m)
           IN  <<SubSeq(text, pos, m - 1), SubSeq(text, m, e)>>
               \o SplitFrom(text, e + 1)

ReSplitHeadings(text) == SplitFrom(text, 1)

\* The provenance marker, "<!-- Auto-Assimilated Source -->".
Marker == <<"<", "!", "-", "-", " ", "A", "u", "t", "o", "-", "A", "s", "s", "i", "m", "i", "l", "a", "t", "e", "d", " ", "S", "o", "u", "r", "c", "e", " ", "-", "-", ">">>

\* formatted = f"<!-- Auto-Assimilated Source -->\n\n{header}\n\n{content}"
Formatted(header, content) ==
  Marker \o <<"\n", "\n">> \o header \o <<"\n", "\n">> \o content

\* The loop when a failed append ends the run: nothing is tried after the
\* first append_file that returns False.
RECURSIVE Distribute_abort(_, _, _, _)
Distribute_abort(sections, i, base_dir, acc) ==
  IF i > Len(sections) THEN acc
  ELSE IF i + 1 > Len(sections) THEN acc
  ELSE LET header  == Strip(sections[i])
           content == Strip(sections[i + 1])
       IN  IF content = <<>> THEN Distribute_abort(sections, i + 2, base_dir, acc)
           ELSE LET category   == identify_category(header \o <<"\n">> \o content)
                    safe_title == slugify_title(header)
                    dest       == get_destination_path(base_dir, category, safe_title)
                    formatted  == Formatted(header, content)
                    ok         == append_file_ok(acc.disk, dest, formatted)
                    next       ==
                      [disk    |-> append_file(acc.disk, dest, formatted),
                       appends |-> Append(acc.appends,
                                     [dest |-> dest, category |-> category,
                                      safe_title |-> safe_title,
                                      header |-> header, content |-> content,
                                      ok |-> ok])]
                IN  IF ok THEN Distribute_abort(sections, i + 2, base_dir, next)
                    ELSE next

\* The loop with break in the place of continue: it stops at the first
\* section whose body is empty.
RECURSIVE Distribute_break(_, _, _, _)
Distribute_break(sections, i, base_dir, acc) ==
  IF i > Len(sections) THEN acc
  ELSE IF i + 1 > Len(sections) THEN acc
  ELSE LET header  == Strip(sections[i])
           content == Strip(sections[i + 1])
       IN  IF content = <<>> THEN acc
           ELSE LET category   == identify_category(header \o <<"\n">> \o content)
                    safe_title == slugify_title(header)
                    dest       == get_destination_path(base_dir, category, safe_title)
                    formatted  == Formatted(header, content)
                IN  Distribute_break(sections, i + 2, base_dir,
                      [disk    |-> append_file(acc.disk, dest, formatted),
                       appends |-> Append(acc.appends,
                                     [dest |-> dest, category |-> category,
                                      safe_title |-> safe_title,
                                      header |-> header, content |-> content,
                                      ok |-> append_file_ok(acc.disk, dest, formatted)])])

\* The loop of process_brain_dump over sections[i], sections[i + 1] for the
\* header chunk at position i (2, 4, ...); acc holds the disk and the log
\* of the append_file calls made so far (an "Appended to" log line when ok,
\* an "Error appending" line otherwise).
RECURSIVE Distribute(_, _, _, _)
Distribute(sections, i, base_dir, acc) ==
  IF i > Len(sections) THEN acc
  ELSE IF i + 1 > Len(sections) THEN acc
  ELSE LET header  == Strip(sections[i])
           content == Strip(sections[i + 1])
       IN  IF content = <<>> THEN Distribute(sections, i + 2, base_dir, acc)
           ELSE LET category   == identify_category(header \o <<"\n">> \o content)
                    safe_title == slugify_title(header)
                    dest       == get_destination_path(base_dir, category, safe_title)
                    formatted  == Formatted(header, content)
                IN  Distribute(sections, i + 2, base_dir,
                      [disk    |-> append_file(acc.disk, dest, formatted),
                       appends |-> Append(acc.appends,
                                     [dest |-> dest, category |-> category,
                                      safe_title |-> safe_title,
                                      header |-> header, content |-> content,
                                      ok |-> append_file_ok(acc.disk, dest, formatted)])])

\* ----------------------------------------------------------------- the model
\* The project directory that receives the assimilated knowledge.
BaseDir == <<"p", "r", "o", "j">>

\* The lines a source document is made of.
DocLines ==
  { <<"#", " ", "R", "u", "n">>, <<"#">>, <<>>, <<" ", "M", "u", "s", "t", " ", "l", "i", "n", "t">>, <<"n", "p", "m", " ", "c", "l", "i", " ">> }

\* " ".join(words)
RECURSIVE JoinWords(_)
JoinWords(words) ==
  IF words = <<>> THEN <<>>
  ELSE IF Len(words) = 1 THEN words[1]
  ELSE words[1] \o <<" ">> \o JoinWords(Tail(words))

\* "\n".join(lines)
RECURSIVE JoinLines(_)
JoinLines(lines) ==
  IF lines = <<>> THEN <<>>
  ELSE IF Len(lines) = 1 THEN lines[1]
  ELSE lines[1] \o <<"\n">> \o JoinLines(Tail(lines))

\* The source documents: up to MaxLines lines.
Docs == {JoinLines(ls) : ls \in UNION {[1..n -> DocLines] : n \in 0..MaxLines}}

\* The second source file holds a fixed, longer document: three sections
\* with the same header, the second classified unlike the other two.
DocB ==
  JoinLines(<< <<"#", " ", "R", "u", "n">>, <<"m", "u", "s", "t", " ", "l", "i", "n", "t">>, <<"#", " ", "R", "u", "n">>, <<"n", "p", "m", " ", "c", "l", "i">>,
               <<"#", " ", "R", "u", "n">>, <<"L", "i", "n", "t", " ", "i", "t">>, <<>> >>)

\* The text of the file that os.access reports as unreadable.
DocLocked == JoinLines(<< <<"#", " ", "R", "u", "n">>, <<"m", "u", "s", "t", " ", "l", "i", "n", "t">> >>)

\* Source paths, outside the project directory.
SrcA       == <<"a", ".", "m", "d">>
SrcB       == <<"b", ".", "m", "d">>
SrcDir     == <<"n", "o", "t", "e", "s">>
SrcLocked  == <<"l", "o", "c", "k", "e", "d", ".", "m", "d">>
SrcBroken  == <<"b", "r", "o", "k", "e", "n", ".", "m", "d">>
SrcMissing == <<"/", "n", "o", "n", "e", "x", "i", "s", "t", "e", "n", "t", "/", "f", "i", "l", "e", ".", "m", "d">>

\* The filepath argument: None, or a string.
NoneArg == [none |-> TRUE, path |-> <<>>]

StrArg(p) == [none |-> FALSE, path |-> p]

\* The paths of a direct call: None, the empty string, a readable file, a
\* directory, a file without read permission, a file whose open() fails,
\* a path that does not exist.
DirectPaths ==
  {NoneArg} \cup {StrArg(p) : p \in {<<>>, SrcA, SrcDir, SrcLocked,
                                       SrcBroken, SrcMissing}}

\* The brain dumps handed to generate_project.
BrainDumps == {StrArg(SrcA), StrArg(SrcB)}

\* A file written by the user before any assimilation, at a path that a
\* section can be routed to; it does not end with a newline.
OldFile ==
  PathJoin(PathJoin(PathJoin(BaseDir, AGENT_DIR), <<"r", "u", "l", "e", "s">>), <<"i", "m", "p", "o", "r", "t", "e", "d", "_", "r", "u", "n", ".", "m", "d">>)

OldText == <<"o", "l", "d">>

\* raw_dest of process_brain_dump
raw_dest(base_dir) ==
  PathJoin(PathJoin(PathJoin(base_dir, <<"c", "o", "n", "t", "e", "x", "t">>), <<"r", "a", "w">>), <<"m", "a", "s", "t", "e", "r", "_", "b", "r", "a", "i", "n", "_", "d", "u", "m", "p", ".", "m", "d">>)

\* TECH_STACK.md put among the imported documents.
tech_stack_path_imported(base_dir) ==
  PathJoin(PathJoin(PathJoin(base_dir, <<"d", "o", "c", "s">>), <<"i", "m", "p", "o", "r", "t", "e", "d">>), <<"T", "E", "C", "H", "_", "S", "T", "A", "C", "K", ".", "m", "d">>)

\* tech_stack_path of process_brain_dump
tech_stack_path(base_dir) ==
  PathJoin(PathJoin(base_dir, <<"d", "o", "c", "s">>), <<"T", "E", "C", "H", "_", "S", "T", "A", "C", "K", ".", "m", "d">>)

VARIABLES
  disk,      \* the filesystem under the project directory: [files, dirs]
  sources,   \* the paths outside it: path -> [isfile, readable, opens, text]
  input,     \* the argument a pure function is about to be applied to
  last,      \* the last call: its arguments, what it returned and logged
  history,   \* the paths of the calls made (for process_brain_dump, of those
             \* that read their source)
  procs,     \* the process_brain_dump runs that execute side by side: for
             \* each its position and what it has read and appended
  presets    \* the files of ~/.antigravity/presets: name -> the JSON stored

vars == <<disk, sources, input, last, history, procs, presets>>

\* validate_file_path without the os.access test.
validate_file_path_noaccess(srcs, filepath) ==
  IF filepath.none \/ filepath.path = <<>> THEN FALSE
  ELSE IF ~(filepath.path \in DOMAIN srcs /\ srcs[filepath.path].isfile) THEN FALSE
  ELSE TRUE

\* AntigravityEngine.validate_file_path
validate_file_path(srcs, filepath) ==
  IF filepath.none \/ filepath.path = <<>> THEN FALSE
  ELSE IF ~(filepath.path \in DOMAIN srcs /\ srcs[filepath.path].isfile) THEN FALSE
  ELSE IF ~srcs[filepath.path].readable THEN FALSE
  ELSE TRUE

\* with open(filepath, encoding="utf-8", errors="replace") as f: f.read(),
\* inside try/except: the text, or a failure when open() raises.
ReadSource(srcs, filepath) ==
  IF /\ ~filepath.none
     /\ filepath.path \in DOMAIN srcs
     /\ srcs[filepath.path].isfile
     /\ srcs[filepath.path].opens
    THEN [ok |-> TRUE, text |-> srcs[filepath.path].text]
    ELSE [ok |-> FALSE, text |-> <<>>]

\* AntigravityAssimilator.process_brain_dump: the disk after the call, the
\* returned keywords, and what the call read and appended.
process_brain_dump(d, srcs, filepath, base_dir) ==
  LET nothing == [disk |-> d, ret |-> {}, read |-> FALSE, text |-> <<>>,
                  appends |-> <<>>]
      src == ReadSource(srcs, filepath)
  IN  IF ~validate_file_path(srcs, filepath) THEN nothing
      ELSE IF ~src.ok THEN nothing
      ELSE LET full_text == src.text
               d1 == write_file(d, raw_dest(base_dir), full_text, TRUE)
               detected_keywords == detect_tech_stack(full_text)
               tech_stack_content == build_tech_deep_dive(detected_keywords, full_text)
               d2 == write_file(d1, tech_stack_path(base_dir), tech_stack_content, TRUE)
               sections == ReSplitHeadings(full_text)
               done == Distribute(sections, 2, base_dir,
                                  [disk |-> d2, appends |-> <<>>])
           IN  [disk |-> done.disk, ret |-> detected_keywords, read |-> TRUE,
                text |-> full_text, appends |-> done.appends]

\* The paths outside the project directory when SrcA holds doc: two
\* readable files, a directory, a file that os.access reports as
\* unreadable (it tests the real user id; open() is not reached), a file
\* whose open() raises.  SrcMissing does not exist.
SourcesWith(doc) ==
  (SrcA      :> [isfile |-> TRUE,  readable |-> TRUE,  opens |-> TRUE,  text |-> doc]) @@
  (SrcB      :> [isfile |-> TRUE,  readable |-> TRUE,  opens |-> TRUE,  text |-> DocB]) @@
  (SrcDir    :> [isfile |-> FALSE, readable |-> TRUE,  opens |-> FALSE, text |-> <<>>]) @@
  (SrcLocked :> [isfile |-> TRUE,  readable |-> FALSE, opens |-> TRUE,  text |-> DocLocked]) @@
  (SrcBroken :> [isfile |-> TRUE,  readable |-> TRUE,  opens |-> FALSE, text |-> <<>>])

\* The project directory before any assimilation.
InitDisk ==
  [files |-> (OldFile :> OldText), dirs |-> MakeDirs(Dirname(OldFile)),
   denied |-> {}]

NoCall == [op |-> "none"]

NoInput == [fn |-> "none"]

Init ==
  /\ disk = InitDisk
  /\ \E doc \in Docs : sources = SourcesWith(doc)
  /\ input = NoInput
  /\ last = NoCall
  /\ history = <<>>
  /\ procs = <<>>
  /\ presets = <<>>

\* A call of process_brain_dump(filepath, base_dir) by a caller that runs in
\* one of the given modes (generate_project hands the path and the base
\* directory over, not its mode).  At most MaxRuns calls read a source.
ProcessBrainDump(filepath, base_dir, modes) ==
  /\ (validate_file_path(sources, filepath) /\ ReadSource(sources, filepath).ok)
        => Len(history) < MaxRuns
  /\ \E r \in {process_brain_dump(disk, sources, filepath, base_dir)} :
      \E safe_mode \in modes :
        /\ disk' = r.disk
        /\ last' = [op |-> "process_brain_dump", filepath |-> filepath,
                    safe_mode |-> safe_mode, ret |-> r.ret, read |-> r.read,
                    text |-> r.text, appends |-> r.appends]
        /\ history' = IF r.read THEN Append(history, filepath.path) ELSE history
        /\ UNCHANGED <<sources, input, procs, presets>>

\* The texts identify_category is tried on: up to MaxWords words.
CategoryWords ==
  { <<"A", "l", "w", "a", "y", "s">>, <<"m", "u", "s", "t">>, <<"r", "u", "n">>, <<"r", "u", "n", "s">>, <<"c", "l", "i">>, <<"h", "o", "w", "-", "t", "o">>, <<"c", "o", "n", "t", "e", "x", "t">> }

CategoryTexts ==
  {JoinWords(ws) : ws \in UNION {[1..n -> CategoryWords] : n \in 0..MaxWords}}

\* The call identify_category(input.text).
IdentifyCategory ==
  /\ input.fn = "identify_category"
  /\ last = NoCall
  /\ last' = [op |-> "identify_category", text |-> input.text,
              ret |-> identify_category(input.text)]
  /\ UNCHANGED <<disk, sources, input, history, procs, presets>>

\* The texts detect_tech_stack is tried on: up to MaxWords words, among
\* them keys, aliases, an alias that is a key too, and the name of an alias
\* group that is no key.
TechWords ==
  { <<"P", "y", "t", "h", "o", "n">>, <<"n", "p", "m">>, <<"r", "e", "a", "c", "t">>, <<"c", "l", "o", "u", "d">>, <<"a", "w", "s">>, <<"p", "y", "t", "h", "o", "n", "i", "c">>,
    <<"d", "o", "c", "k", "e", "r", "-", "c", "o", "m", "p", "o", "s", "e">> }

TechTexts ==
  {JoinWords(ws) : ws \in UNION {[1..n -> TechWords] : n \in 0..MaxWords}}

\* The call detect_tech_stack(input.text).
DetectTechStack ==
  /\ input.fn = "detect_tech_stack"
  /\ last = NoCall
  /\ last' = [op |-> "detect_tech_stack", text |-> input.text,
              ret |-> detect_tech_stack(input.text)]
  /\ UNCHANGED <<disk, sources, input, history, procs, presets>>

\* The titles slugify_title is tried on: a marker or none, then up to
\* MaxWords words, among them punctuation only, the Kelvin sign, a word of
\* 24 letters (three of them pass 50 characters) and underscores.
SlugWords ==
  { <<"R", "u", "n">>, <<"?", "?", "?">>, <<KelvinSign>>, <<"_", "_", "i", "n", "i", "t", "_", "_">>, <<"S", "e", "t", "-", "U", "p", " ", "2">>,
    <<"a", "b", "c", "d", "e", "f", "g", "h", "i", "j", "k", "l", "m", "n", "o", "p", "q", "r", "s", "t", "u", "v", "w", "x">> }

SlugMarkers == { <<>>, <<"#", " ">>, <<"#", "#">> }

SlugTitles ==
  {m \o JoinWords(ws) :
     m \in SlugMarkers,
     ws \in UNION {[1..n -> SlugWords] : n \in 0..MaxWords}}

\* The call slugify_title(input.title).
SlugifyTitle ==
  /\ input.fn = "slugify_title"
  /\ last = NoCall
  /\ last' = [op |-> "slugify_title", title |-> input.title,
              ret |-> slugify_title(input.title)]
  /\ UNCHANGED <<disk, sources, input, history, procs, presets>>

\* The categories and slugs get_destination_path is tried on: the four
\* categories, and values that are none of them.
DestCategories == {"rules", "workflows", "skills", "docs", "Rules", "other", ""}

DestSlugs ==
  { <<"r", "u", "n">>, <<"u", "n", "t", "i", "t", "l", "e", "d">>, <<"a", "_", "b">>, <<"i", "m", "p", "o", "r", "t", "e", "d", "_", "r", "u", "n">>, <<"s", "k", "i", "l", "l">>, <<"m", "d">> }

\* The call get_destination_path(base_dir, input.category, input.safe_title).
GetDestinationPath ==
  /\ input.fn = "get_destination_path"
  /\ last = NoCall
  /\ last' = [op |-> "get_destination_path", category |-> input.category,
              safe_title |-> input.safe_title,
              ret |-> get_destination_path(BaseDir, input.category,
                                           input.safe_title)]
  /\ UNCHANGED <<disk, sources, input, history, procs, presets>>

\* Direct calls of process_brain_dump.
Next == \E filepath \in DirectPaths : ProcessBrainDump(filepath, BaseDir, {FALSE})

Spec == Init /\ [][Next]_vars

\* The calls generate_project makes (if brain_dump_path: ...), in safe mode
\* or in overwrite mode.
NextCaller ==
  \E brain_dump_path \in BrainDumps :
     ProcessBrainDump(brain_dump_path, BaseDir, BOOLEAN)

SpecCaller == Init /\ [][NextCaller]_vars

\* The pure functions, applied to inputs of their own.
InitPure ==
  /\ disk = InitDisk
  /\ sources = SourcesWith(<<>>)
  /\ input \in [fn : {"identify_category"}, text : CategoryTexts]
               \cup [fn : {"detect_tech_stack"}, text : TechTexts]
               \cup [fn : {"slugify_title"}, title : SlugTitles]
               \cup [fn : {"get_destination_path"}, category : DestCategories,
                     safe_title : DestSlugs]
  /\ last = NoCall
  /\ history = <<>>
  /\ procs = <<>>
  /\ presets = <<>>

NextPure ==
  \/ IdentifyCategory
  \/ DetectTechStack
  \/ SlugifyTitle
  \/ GetDestinationPath

SpecPure == InitPure /\ [][NextPure]_vars


\* ------------------------------------------------------------------------
\* Properties of the brain-dump pipeline
\* ------------------------------------------------------------------------

\* The call recorded in l is a process_brain_dump that read its source.
ReadRun(l) == l.op = "process_brain_dump" /\ l.read

\* The directories above path p.
AncestorDirs(p) == {SubSeq(p, 1, i - 1) : i \in {j \in 2..Len(p) : p[j] = "/"}}

\* The content of the file at p on disk d, empty when there is no file.
ContentOf(d, p) == IF p \in DOMAIN d.files THEN d.files[p] ELSE <<>>

\* C1: a call of process_brain_dump never truncates or overwrites a file
\* it finds: every file present before the call is present after it, with
\* its old content as a prefix of the new; and every file present after the
\* call has all its parent directories.
C1_AppendOnly ==
  [][last'.op = "process_brain_dump" =>
       /\ \A p \in DOMAIN disk.files :
            /\ p \in DOMAIN disk'.files
            /\ IsPrefix(disk.files[p], disk'.files[p])
       /\ \A p \in DOMAIN disk'.files : AncestorDirs(p) \subseteq disk'.dirs]_vars

\* A run appended a section to the rule file that existed before, and
\* created the directory of the archive.
C1_Witness ==
  /\ ReadRun(last)
  /\ IsPrefix(OldText, disk.files[OldFile])
  /\ Len(disk.files[OldFile]) > Len(OldText)
  /\ Dirname(raw_dest(BaseDir)) \in disk.dirs
  /\ Dirname(raw_dest(BaseDir)) \notin InitDisk.dirs

\* The (heading, body) pairs of a text, in order: chunk 2k is a heading
\* line and chunk 2k + 1 the text up to the next heading, both stripped.
SectionsOf(text) ==
  LET ch == ReSplitHeadings(text)
  IN  [k \in 1..((Len(ch) - 1) \div 2) |->
         [header |-> Strip(ch[2 * k]), body |-> Strip(ch[2 * k + 1])]]

\* The destination the spec gives a section.
DestOf(s) ==
  get_destination_path(BaseDir,
                       identify_category(s.header \o <<"\n">> \o s.body),
                       slugify_title(s.header))

\* The block a section adds to its destination file.
BlockOf(s) ==
  <<"\n", "\n">> \o Marker \o <<"\n", "\n">> \o s.header
                 \o <<"\n", "\n">> \o s.body \o <<"\n">>

\* The blocks a text adds to path p, in document order.
BlocksFor(text, p) ==
  LET Wanted(s) == s.body # <<>> /\ DestOf(s) = p
      ss == SelectSeq(SectionsOf(text), Wanted)
  IN  Concat([k \in 1..Len(ss) |-> BlockOf(ss[k])])

\* The destinations of the sections with a body.
DestsOf(text) ==
  LET ss == SectionsOf(text)
  IN  {DestOf(ss[k]) : k \in {j \in 1..Len(ss) : ss[j].body # <<>>}}

\* C2: a run that read its source appends, for every section whose stripped
\* body is not empty, exactly one block (marker, blank line, heading, blank
\* line, body) to the one destination file of that section, and a heading
\* whose body is empty adds nothing: apart from the archive and
\* TECH_STACK.md, the files after the run are the files before it followed
\* by the blocks of their sections.
C2_EachSectionOnce ==
  [][ReadRun(last') =>
       LET text  == last'.text
           fixed == {raw_dest(BaseDir), tech_stack_path(BaseDir)}
           ss    == SectionsOf(text)
       IN  /\ Len(last'.appends) =
                Cardinality({k \in 1..Len(ss) : ss[k].body # <<>>})
           /\ (DOMAIN disk'.files) \ fixed =
                ((DOMAIN disk.files) \cup DestsOf(text)) \ fixed
           /\ \A p \in (DOMAIN disk'.files) \ fixed :
                disk'.files[p] = ContentOf(disk, p) \o BlocksFor(text, p)]_vars

\* A run over a text with two headings, the first with an empty body and
\* the second with a body, wrote one block.
C2_Witness ==
  /\ ReadRun(last)
  /\ Len(ReSplitHeadings(last.text)) = 5
  /\ Strip(ReSplitHeadings(last.text)[3]) = <<>>
  /\ Len(last.appends) = 1
  /\ disk.files[last.appends[1].dest] # <<>>

\* The categories in the order of their declaration.
CategoryOrder == <<"rules", "workflows", "skills", "docs">>

\* Keyword k occurs in text t at position i as a whole word.
WholeWordAt(t, i, k) ==
  LET e == i + Len(k) - 1
  IN  /\ e <= Len(t)
      /\ SubSeq(t, i, e) = k
      /\ (i = 1 \/ ~IsWordChar(t[i - 1]))
      /\ (e = Len(t) \/ ~IsWordChar(t[e + 1]))

\* The number of whole-word occurrences of k in t.
Occurrences(t, k) == Cardinality({i \in 1..Len(t) : WholeWordAt(t, i, k)})

\* The keywords of the category named c.
KeywordsOf(c) ==
  LET r == CHOOSE j \in 1..Len(CLASSIFICATION_RULES) :
             CLASSIFICATION_RULES[j].category = c
  IN  CLASSIFICATION_RULES[r].keywords

\* The score of category c on the lowercased text t.
ScoreOf(t, c) ==
  LET ks == KeywordsOf(c)
  IN  SumSeq([j \in 1..Len(ks) |-> Occurrences(t, ks[j])])

\* C3: identify_category counts, for each category, the whole-word
\* occurrences of its keywords in the lowercased text; it answers docs when
\* every count is zero, and otherwise the category with the greatest count,
\* the first of rules, workflows, skills, docs among equals.
C3_HighestCountFirstWins ==
  last.op = "identify_category" =>
    LET t == Lower(last.text)
        n == [c \in 1..4 |-> ScoreOf(t, CategoryOrder[c])]
    IN  IF \A c \in 1..4 : n[c] = 0
          THEN last.ret = "docs"
          ELSE \E c \in 1..4 :
                 /\ last.ret = CategoryOrder[c]
                 /\ \A d \in 1..4 : n[d] <= n[c]
                 /\ \A d \in 1..(c - 1) : n[d] < n[c]

\* A text whose skills keyword comes before its workflows keyword, one
\* occurrence each, was classified as workflows.
C3_Witness ==
  /\ last.op = "identify_category"
  /\ last.text = <<"c", "l", "i", " ", "r", "u", "n">>
  /\ ScoreOf(Lower(last.text), "workflows") = 1
  /\ ScoreOf(Lower(last.text), "skills") = 1
  /\ last.ret = "workflows"

\* The argument names no file that can be read.
Unusable(srcs, filepath) ==
  \/ filepath.none
  \/ filepath.path = <<>>
  \/ filepath.path \notin DOMAIN srcs
  \/ ~srcs[filepath.path].isfile
  \/ ~srcs[filepath.path].readable
  \/ ~srcs[filepath.path].opens

\* C4: with a filepath that is None, empty, missing, not a regular file,
\* unreadable, or that fails to open, process_brain_dump returns the empty
\* list and leaves the project directory as it was.
C4_InvalidPathNoEffect ==
  [][(last'.op = "process_brain_dump" /\ Unusable(sources, last'.filepath)) =>
       (last'.ret = {} /\ ~last'.read /\ disk' = disk)]_vars

\* After a run that filled the project, a call with the unreadable file
\* returned nothing.
C4_Witness ==
  /\ last.op = "process_brain_dump"
  /\ last.filepath = StrArg(SrcLocked)
  /\ last.ret = {}
  /\ Len(history) = 1
  /\ raw_dest(BaseDir) \in DOMAIN disk.files

\* C5: after the first run over a source, the archive
\* context/raw/master_brain_dump.md holds the raw text of the source,
\* character for character.
C5_ArchiveIsRawText ==
  (ReadRun(last) /\ Len(history) = 1) =>
    /\ raw_dest(BaseDir) \in DOMAIN disk.files
    /\ disk.files[raw_dest(BaseDir)] = last.text

\* C6: the archive write follows the mode of the caller: in safe mode an
\* archive that exists is left as it is, and out of safe mode the archive
\* is written again with the text of the current source (compared here
\* without the surrounding whitespace that write_file drops).
C6_ArchiveFollowsMode ==
  [][ReadRun(last') =>
       LET raw == raw_dest(BaseDir)
       IN  /\ raw \in DOMAIN disk'.files
           /\ (last'.safe_mode /\ raw \in DOMAIN disk.files) =>
                disk'.files[raw] = disk.files[raw]
           /\ ~last'.safe_mode =>
                Strip(disk'.files[raw]) = Strip(last'.text)]_vars

\* The files of the project directory before any run.
InitialContent(p) == ContentOf(InitDisk, p)

\* C7: after n runs over the same unchanged source, every destination file
\* holds what it held before the first run followed by n copies of the
\* blocks one run routes to it; the archive and TECH_STACK.md aside, there
\* is no other file.
C7_NotIdempotent ==
  (history # <<>> /\ \A i \in 1..Len(history) : history[i] = SrcA) =>
    LET text  == sources[SrcA].text
        fixed == {raw_dest(BaseDir), tech_stack_path(BaseDir)}
        n     == Len(history)
    IN  /\ (DOMAIN disk.files) \ fixed =
             ((DOMAIN InitDisk.files) \cup DestsOf(text)) \ fixed
        /\ \A p \in (DOMAIN disk.files) \ fixed :
             disk.files[p] = InitialContent(p) \o Repeat(BlocksFor(text, p), n)

\* Two runs over a source with a section for the rule file left two copies
\* of its block after the old content.
C7_Witness ==
  /\ history = <<SrcA, SrcA>>
  /\ BlocksFor(sources[SrcA].text, OldFile) # <<>>
  /\ disk.files[OldFile] =
       OldText \o BlocksFor(sources[SrcA].text, OldFile)
               \o BlocksFor(sources[SrcA].text, OldFile)

\* The block of log entry a.
BlockOfEntry(a) == BlockOf([header |-> a.header, body |-> a.content])

\* In what a run added to the file of a, the block of a ends before the
\* block of b begins.
InOrder(before, after, a, b) ==
  LET old  == ContentOf(before, a.dest)
      new  == after.files[a.dest]
      tail == SubSeq(new, Len(old) + 1, Len(new))
  IN  /\ IsPrefix(old, new)
      /\ \E i \in 1..Len(tail) :
           /\ StartsWithAt(tail, i, BlockOfEntry(a))
           /\ \E j \in (i + Len(BlockOfEntry(a)))..Len(tail) :
                StartsWithAt(tail, j, BlockOfEntry(b))

\* C8 as stated: two sections of one document with the same header and
\* bodies that are not empty get the same slug and the same destination
\* file, the block of the earlier one before the block of the later one.
C8_SameHeaderSameFile ==
  [][ReadRun(last') =>
       \A i \in 1..Len(last'.appends), j \in 1..Len(last'.appends) :
         (i < j /\ last'.appends[i].header = last'.appends[j].header) =>
           /\ last'.appends[i].safe_title = last'.appends[j].safe_title
           /\ last'.appends[i].dest = last'.appends[j].dest
           /\ InOrder(disk, disk', last'.appends[i], last'.appends[j])]_vars

\* C8: two sections of one document with the same header and bodies that
\* are not empty get the same slug; they go to the same destination file,
\* the block of the earlier one before the block of the later one, exactly
\* when their header and body classify them into the same category.
C8_SameHeaderSameSlug ==
  [][ReadRun(last') =>
       \A i \in 1..Len(last'.appends), j \in 1..Len(last'.appends) :
         (i < j /\ last'.appends[i].header = last'.appends[j].header) =>
           LET a == last'.appends[i]
               b == last'.appends[j]
               ca == identify_category(a.header \o <<"\n">> \o a.content)
               cb == identify_category(b.header \o <<"\n">> \o b.content)
           IN  /\ a.safe_title = b.safe_title
               /\ a.safe_title = slugify_title(a.header)
               /\ IF ca = cb
                    THEN a.dest = b.dest /\ InOrder(disk, disk', a, b)
                    ELSE a.dest # b.dest]_vars

\* A run over a document with three sections of one header: the first and
\* the third went to one file, the second to another.
C8_Witness ==
  /\ ReadRun(last)
  /\ Len(last.appends) = 3
  /\ last.appends[1].header = last.appends[2].header
  /\ last.appends[1].header = last.appends[3].header
  /\ last.appends[1].dest = last.appends[3].dest
  /\ last.appends[1].dest # last.appends[2].dest
  /\ Contains(disk.files[last.appends[1].dest],
              BlockOfEntry(last.appends[1]) \o BlockOfEntry(last.appends[3]))

\* The text has a heading: a line that begins with one or more # followed
\* by a whitespace character (a line break counts).
HasHeading(text) ==
  \E i \in 1..Len(text), j \in 1..Len(text) :
    /\ i = 1 \/ text[i - 1] = "\n"
    /\ i <= j /\ j < Len(text)
    /\ \A x \in i..j : text[x] = "#"
    /\ IsSpace(text[j + 1])

\* The files a run wrote: new ones and those whose content changed.
Written(before, after) ==
  {p \in DOMAIN after.files :
     p \notin DOMAIN before.files \/ after.files[p] # before.files[p]}

\* The two files every run makes sure of, as the project names them.
ArchiveFile == <<"p", "r", "o", "j", "/", "c", "o", "n", "t", "e", "x", "t", "/", "r", "a", "w", "/", "m", "a", "s", "t", "e", "r", "_", "b", "r", "a", "i", "n", "_", "d", "u", "m", "p", ".", "m", "d">>

TechStackFile == <<"p", "r", "o", "j", "/", "d", "o", "c", "s", "/", "T", "E", "C", "H", "_", "S", "T", "A", "C", "K", ".", "m", "d">>

\* C9 as stated: for a document that is empty or has no heading, the run
\* reads it, makes no section, and writes no file but the archive.
C9_OnlyArchiveWritten ==
  [][(ReadRun(last') /\ ~HasHeading(last'.text)) =>
       /\ last'.appends = <<>>
       /\ Written(disk, disk') \subseteq {ArchiveFile}]_vars

\* C9: for a document that is empty or has no heading, the run reads it,
\* makes no section, and writes no file but the archive and
\* docs/TECH_STACK.md, each of them only when it is not there yet; no file
\* is removed.
C9_OnlyArchiveAndTechStack ==
  [][(ReadRun(last') /\ ~HasHeading(last'.text)) =>
       /\ last'.appends = <<>>
       /\ DOMAIN disk.files \subseteq DOMAIN disk'.files
       /\ Written(disk, disk') \subseteq
            {ArchiveFile, TechStackFile} \ DOMAIN disk.files
       /\ {ArchiveFile, TechStackFile} \subseteq DOMAIN disk'.files]_vars

\* The first run over a document without a heading left the archive and
\* TECH_STACK.md and nothing else that is new.
C9_Witness ==
  /\ ReadRun(last)
  /\ Len(history) = 1
  /\ ~HasHeading(last.text)
  /\ last.text # <<>>
  /\ Written(InitDisk, disk) = {ArchiveFile, TechStackFile}

\* Keyword k occurs in t as a whole word.
OccursIn(t, k) == \E i \in 1..Len(t) : WholeWordAt(t, i, k)

\* The technologies of a text: the keys of the gitignore and package maps
\* that occur in the lowercased text as whole words, and the primary name
\* of every alias that does.
TechnologiesOf(text) ==
  LET t == Lower(text)
  IN  {k \in Range(GITIGNORE_MAP_keys) \cup Range(NIX_PACKAGE_MAP_keys) :
         OccursIn(t, k)}
        \cup {TECH_ALIASES[r].primary :
                r \in {q \in 1..Len(TECH_ALIASES) :
                         \E a \in 1..Len(TECH_ALIASES[q].aliases) :
                           OccursIn(t, TECH_ALIASES[q].aliases[a])}}

\* C10: the keywords a run returns are the technologies of the whole text,
\* however the text splits into sections.
C10_KeywordsOfWholeText ==
  ReadRun(last) => last.ret = TechnologiesOf(last.text)

\* A run over a document without a heading that mentions npm returned node.
C10_Witness ==
  /\ ReadRun(last)
  /\ ~HasHeading(last.text)
  /\ last.appends = <<>>
  /\ <<"n", "o", "d", "e">> \in last.ret

\* ---------------------------------------------------------------------
\* AntigravityResources: the templates, cut down to their first lines.
\* ---------------------------------------------------------------------

\* The entry of a table of files by its name.
ContentOfEntry(table, name) ==
  table[CHOOSE i \in 1..Len(table) : table[i].name = name].content

HasEntry(table, name) == \E i \in 1..Len(table) : table[i].name = name

\* AntigravityResources.AGENT_RULES: file name and the first three lines of
\* the rule.
AGENT_RULES ==
  << [name |-> <<"0", "0", "_", "i", "d", "e", "n", "t", "i", "t", "y", ".", "m", "d">>,
      content |-> <<"-", "-", "-", "\n", "l", "a", "y", "e", "r", ":", " ", "0", "\n", "t", "y", "p", "e", ":", " ", "i", "d", "e", "n", "t", "i", "t", "y">>],
     [name |-> <<"0", "2", "_", "s", "e", "c", "u", "r", "i", "t", "y", ".", "m", "d">>,
      content |-> <<"-", "-", "-", "\n", "l", "a", "y", "e", "r", ":", " ", "0", "\n", "t", "y", "p", "e", ":", " ", "p", "r", "o", "t", "o", "c", "o", "l">>],
     [name |-> <<"0", "3", "_", "g", "i", "t", ".", "m", "d">>,
      content |-> <<"-", "-", "-", "\n", "l", "a", "y", "e", "r", ":", " ", "1", "\n", "t", "y", "p", "e", ":", " ", "w", "o", "r", "k", "f", "l", "o", "w">>],
     [name |-> <<"0", "4", "_", "r", "e", "a", "s", "o", "n", "i", "n", "g", ".", "m", "d">>,
      content |-> <<"-", "-", "-", "\n", "l", "a", "y", "e", "r", ":", " ", "1", "\n", "t", "y", "p", "e", ":", " ", "c", "o", "g", "n", "i", "t", "i", "o", "n">>],
     [name |-> <<"0", "5", "_", "a", "r", "c", "h", "i", "t", "e", "c", "t", "u", "r", "e", ".", "m", "d">>,
      content |-> <<"-", "-", "-", "\n", "l", "a", "y", "e", "r", ":", " ", "2", "\n", "t", "y", "p", "e", ":", " ", "p", "e", "r", "s", "o", "n", "a">>],
     [name |-> <<"0", "6", "_", "u", "x", ".", "m", "d">>,
      content |-> <<"-", "-", "-", "\n", "l", "a", "y", "e", "r", ":", " ", "2", "\n", "t", "y", "p", "e", ":", " ", "p", "e", "r", "s", "o", "n", "a">>],
     [name |-> <<"0", "7", "_", "s", "e", "c", "u", "r", "i", "t", "y", "_", "e", "x", "p", "e", "r", "t", ".", "m", "d">>,
      content |-> <<"-", "-", "-", "\n", "l", "a", "y", "e", "r", ":", " ", "2", "\n", "t", "y", "p", "e", ":", " ", "p", "e", "r", "s", "o", "n", "a">>],
     [name |-> <<"0", "8", "_", "b", "o", "u", "n", "d", "a", "r", "i", "e", "s", ".", "m", "d">>,
      content |-> <<"-", "-", "-", "\n", "l", "a", "y", "e", "r", ":", " ", "0", "\n", "t", "y", "p", "e", ":", " ", "s", "a", "f", "e", "t", "y">>],
     [name |-> <<"0", "9", "_", "c", "r", "o", "s", "s", "_", "r", "e", "p", "o", ".", "m", "d">>,
      content |-> <<"-", "-", "-", "\n", "l", "a", "y", "e", "r", ":", " ", "1", "\n", "t", "y", "p", "e", ":", " ", "c", "o", "n", "t", "e", "x", "t">>],
     [name |-> <<"1", "0", "_", "e", "v", "o", "l", "u", "t", "i", "o", "n", ".", "m", "d">>,
      content |-> <<"-", "-", "-", "\n", "l", "a", "y", "e", "r", ":", " ", "1", "\n", "t", "y", "p", "e", ":", " ", "p", "r", "o", "t", "o", "c", "o", "l">>],
     [name |-> <<"9", "9", "_", "m", "o", "d", "e", "l", "_", "d", "i", "s", "p", "a", "t", "c", "h", ".", "m", "d">>,
      content |-> <<"-", "-", "-", "\n", "l", "a", "y", "e", "r", ":", " ", "0", "\n", "t", "y", "p", "e", ":", " ", "c", "o", "g", "n", "i", "t", "i", "o", "n">>] >>

\* AntigravityResources.AGENT_WORKFLOWS: file name and the first two lines.
AGENT_WORKFLOWS ==
  << [name |-> <<"p", "l", "a", "n", ".", "m", "d">>,
      content |-> <<"-", "-", "-", "\n", "t", "r", "i", "g", "g", "e", "r", ":", " ", "/", "p", "l", "a", "n">>],
     [name |-> <<"b", "o", "o", "t", "s", "t", "r", "a", "p", ".", "m", "d">>,
      content |-> <<"-", "-", "-", "\n", "t", "r", "i", "g", "g", "e", "r", ":", " ", "/", "b", "o", "o", "t", "s", "t", "r", "a", "p">>],
     [name |-> <<"c", "o", "m", "m", "i", "t", ".", "m", "d">>,
      content |-> <<"-", "-", "-", "\n", "t", "r", "i", "g", "g", "e", "r", ":", " ", "/", "c", "o", "m", "m", "i", "t">>],
     [name |-> <<"r", "e", "v", "i", "e", "w", ".", "m", "d">>,
      content |-> <<"-", "-", "-", "\n", "t", "r", "i", "g", "g", "e", "r", ":", " ", "/", "r", "e", "v", "i", "e", "w">>],
     [name |-> <<"s", "a", "v", "e", ".", "m", "d">>,
      content |-> <<"-", "-", "-", "\n", "t", "r", "i", "g", "g", "e", "r", ":", " ", "/", "s", "a", "v", "e">>],
     [name |-> <<"s", "y", "n", "c", ".", "m", "d">>,
      content |-> <<"-", "-", "-", "\n", "t", "r", "i", "g", "g", "e", "r", ":", " ", "/", "s", "y", "n", "c">>],
     [name |-> <<"e", "v", "o", "l", "v", "e", ".", "m", "d">>,
      content |-> <<"-", "-", "-", "\n", "t", "r", "i", "g", "g", "e", "r", ":", " ", "/", "e", "v", "o", "l", "v", "e">>],
     [name |-> <<"h", "e", "l", "p", ".", "m", "d">>,
      content |-> <<"-", "-", "-", "\n", "t", "r", "i", "g", "g", "e", "r", ":", " ", "/", "h", "e", "l", "p">>],
     [name |-> <<"d", "o", "c", "t", "o", "r", ".", "m", "d">>,
      content |-> <<"-", "-", "-", "\n", "t", "r", "i", "g", "g", "e", "r", ":", " ", "/", "d", "o", "c", "t", "o", "r">>] >>

\* AntigravityResources.AGENT_SKILLS: file name and the first line.
AGENT_SKILLS ==
  << [name |-> <<"g", "i", "t", "_", "a", "u", "t", "o", "m", "a", "t", "i", "o", "n", "/", "S", "K", "I", "L", "L", ".", "m", "d">>,
      content |-> <<"n", "a", "m", "e", ":", " ", "g", "i", "t", "_", "a", "u", "t", "o", "m", "a", "t", "i", "o", "n">>],
     [name |-> <<"s", "e", "c", "r", "e", "t", "s", "_", "m", "a", "n", "a", "g", "e", "r", "/", "S", "K", "I", "L", "L", ".", "m", "d">>,
      content |-> <<"n", "a", "m", "e", ":", " ", "s", "e", "c", "r", "e", "t", "s", "_", "m", "a", "n", "a", "g", "e", "r">>],
     [name |-> <<"b", "r", "i", "d", "g", "e", "/", "b", "r", "i", "d", "g", "e", ".", "p", "y">>,
      content |-> <<"#", " ", "A", "n", "t", "i", "g", "r", "a", "v", "i", "t", "y", " ", "S", "k", "i", "l", "l", " ", "B", "r", "i", "d", "g", "e">>] >>

\* The files of generate_community_standards with the first line of their templates.
CommunityFiles ==
  << [name |-> <<"C", "H", "A", "N", "G", "E", "L", "O", "G", ".", "m", "d">>,
      content |-> <<"#", " ", "C", "h", "a", "n", "g", "e", "l", "o", "g">>],
     [name |-> <<"C", "O", "N", "T", "R", "I", "B", "U", "T", "I", "N", "G", ".", "m", "d">>,
      content |-> <<"#", " ", "C", "o", "n", "t", "r", "i", "b", "u", "t", "i", "n", "g", " ", "t", "o", " ", "t", "h", "e", " ", "P", "r", "o", "j", "e", "c">>],
     [name |-> <<"A", "U", "D", "I", "T", ".", "m", "d">>,
      content |-> <<"#", " ", "S", "e", "c", "u", "r", "i", "t", "y", " ", "&", " ", "Q", "u", "a", "l", "i", "t", "y", " ", "A", "u", "d", "i", "t", " ", "L">>],
     [name |-> <<"S", "E", "C", "U", "R", "I", "T", "Y", ".", "m", "d">>,
      content |-> <<"#", " ", "S", "e", "c", "u", "r", "i", "t", "y", " ", "P", "o", "l", "i", "c", "y">>],
     [name |-> <<"C", "O", "D", "E", "_", "O", "F", "_", "C", "O", "N", "D", "U", "C", "T", ".", "m", "d">>,
      content |-> <<"#", " ", "C", "o", "n", "t", "r", "i", "b", "u", "t", "o", "r", " ", "C", "o", "v", "e", "n", "a", "n", "t", " ", "C", "o", "d", "e", " ">>] >>

\* The first line of AntigravityResources.AGENT_MANIFEST_TEMPLATE.
AGENT_MANIFEST_TEMPLATE == <<"{">>

\* The first line of AntigravityResources.GRAVEYARD_TEMPLATE.
GRAVEYARD_TEMPLATE == <<"#", " ", "D", "e", "p", "e", "n", "d", "e", "n", "c", "y", " ", "&", " ", "L", "o", "g", "i", "c", " ", "G", "r", "a", "v", "e", "y", "a">>

\* The first line of AntigravityResources.EVOLUTION_TEMPLATE.
EVOLUTION_TEMPLATE == <<"#", " ", "U+F8FF", "U+00FC", "U+00DF", "U+00A8", " ", "E", "v", "o", "l", "u", "t", "i", "o", "n", " ", "L", "o", "g", ":", " ", "A", "u", "t", "o", "n", "o">>

\* The first line of AntigravityResources.SENTINEL_PY.
SENTINEL_PY == <<"#", "!", "/", "u", "s", "r", "/", "b", "i", "n", "/", "e", "n", "v", " ", "p", "y", "t", "h", "o", "n", "3">>

\* The first line of AntigravityResources.DEVCONTAINER_JSON.
DEVCONTAINER_JSON == <<"{">>

\* The first line of AntigravityResources.GITHUB_BUG_REPORT.
GITHUB_BUG_REPORT == <<"n", "a", "m", "e", ":", " ", "U+F8FF", "U+00FC", "U+00EA", "U+00F5", " ", "B", "u", "g", " ", "R", "e", "p", "o", "r", "t">>

\* The first line of AntigravityResources.GITHUB_FEATURE_REQUEST.
GITHUB_FEATURE_REQUEST == <<"n", "a", "m", "e", ":", " ", "U+201A", "U+00FA", "U+00AE", " ", "F", "e", "a", "t", "u", "r", "e", " ", "R", "e", "q", "u", "e", "s", "t">>

\* The first line of AntigravityResources.GITHUB_QUESTION.
GITHUB_QUESTION == <<"n", "a", "m", "e", ":", " ", "U+201A", "U+00F9", "U+00EC", " ", "Q", "u", "e", "s", "t", "i", "o", "n">>

\* The first line of AntigravityResources.GITHUB_ISSUE_CONFIG.
GITHUB_ISSUE_CONFIG == <<"b", "l", "a", "n", "k", "_", "i", "s", "s", "u", "e", "s", "_", "e", "n", "a", "b", "l", "e", "d", ":", " ", "f", "a", "l", "s", "e">>

\* The first line of AntigravityResources.GITHUB_PR_TEMPLATE.
GITHUB_PR_TEMPLATE == <<"#", "#", " ", "U+F8FF", "U+00FC", "U+00EC", "U+00E3", " ", "D", "e", "s", "c", "r", "i", "p", "t", "i", "o", "n">>

\* The first line of AntigravityResources.GITHUB_FUNDING.
GITHUB_FUNDING == <<"#", " ", "F", "u", "n", "d", "i", "n", "g", " ", "l", "i", "n", "k", "s">>

\* The first line of AntigravityResources.GITHUB_CI_TEMPLATE.
GITHUB_CI_TEMPLATE == <<"n", "a", "m", "e", ":", " ", "C", "I">>

\* The first line of AntigravityResources.MERMAID_PROJECT_MAP.
MERMAID_PROJECT_MAP == <<"g", "r", "a", "p", "h", " ", "T", "D">>

\* The first line of AntigravityResources.VSCODE_LAUNCH_TEMPLATE.
VSCODE_LAUNCH_TEMPLATE == <<"{">>

\* The first line of AntigravityResources.VSCODE_TASKS_TEMPLATE.
VSCODE_TASKS_TEMPLATE == <<"{">>

\* The first line of AntigravityResources.VSCODE_SNIPPETS_TEMPLATE.
VSCODE_SNIPPETS_TEMPLATE == <<"{">>

\* The first line of AntigravityResources.BASE_GITIGNORE.
BASE_GITIGNORE == <<"#", " ", "-", "-", "-", " ", "U", "n", "i", "v", "e", "r", "s", "a", "l", " ", "-", "-", "-">>


\* ---------------------------------------------------------------------
\* write_file on its own: a caller writing files of the project.
\* ---------------------------------------------------------------------

\* A file the project does not have yet, two directories below one that
\* does not exist either.
NewFile == PathJoin(PathJoin(PathJoin(BaseDir, <<"d", "o", "c", "s">>), <<"n", "e", "w">>), <<"p", "l", "a", "n", ".", "m", "d">>)

\* A path below OldFile, which is a file: its parent cannot be made.
BelowFile == PathJoin(OldFile, <<"x", ".", "m", "d">>)

\* The paths write_file is called with: a file, a missing file, a directory
\* and a path whose parent is a file.
WritePaths == {OldFile, NewFile, Dirname(OldFile), BelowFile}

\* The contents write_file is called with.
WriteContents ==
  { <<"n", "e", "w", " ", "c", "o", "n", "t", "e", "n", "t">>, <<" ", "n", "e", "w", "\n", "\n">>, <<>>, OldText }

\* The call write_file(path, content, exist_ok).
WriteFile(path, content, exist_ok) ==
  /\ Len(history) < MaxRuns
  /\ disk' = write_file(disk, path, content, exist_ok)
  /\ last' = [op |-> "write_file", path |-> path, content |-> content,
              exist_ok |-> exist_ok,
              ret |-> write_file_ok(disk, path, content, exist_ok)]
  /\ history' = Append(history, path)
  /\ UNCHANGED <<sources, input, procs, presets>>

NextFile ==
  \E path \in WritePaths, content \in WriteContents, exist_ok \in BOOLEAN :
    WriteFile(path, content, exist_ok)

\* The project directory with one file in it, and no call made yet.
InitFile ==
  /\ disk = InitDisk
  /\ sources = SourcesWith(<<>>)
  /\ input = NoInput
  /\ last = NoCall
  /\ history = <<>>
  /\ procs = <<>>
  /\ presets = <<>>

SpecFile == InitFile /\ [][NextFile]_vars

\* ---------------------------------------------------------------------
\* process_brain_dump on a disk that refuses some of its writes.
\* ---------------------------------------------------------------------

\* The workflow file the second section of DocB is routed to.
WorkflowFile ==
  PathJoin(PathJoin(PathJoin(BaseDir, AGENT_DIR), <<"w", "o", "r", "k", "f", "l", "o", "w", "s">>), <<"i", "m", "p", "o", "r", "t", "e", "d", "_", "r", "u", "n", ".", "m", "d">>)

\* The files whose open() the disk may refuse: the archive, TECH_STACK.md,
\* and the two files the sections are appended to.
FaultPaths == {raw_dest(BaseDir), tech_stack_path(BaseDir), OldFile, WorkflowFile}

\* The documents of the first source file.
FaultDocs ==
  { <<>>, DocLocked, JoinLines(<< <<"#", " ", "R", "u", "n">>, <<"n", "p", "m", " ", "c", "l", "i">>, <<"#", " ", "R", "u", "n">>, <<"m", "u", "s", "t", " ", "l", "i", "n", "t">> >>) }

\* Any set of the files is refused, for the whole behaviour.
InitFault ==
  /\ \E denied \in SUBSET FaultPaths : disk = [InitDisk EXCEPT !.denied = denied]
  /\ \E doc \in FaultDocs : sources = SourcesWith(doc)
  /\ input = NoInput
  /\ last = NoCall
  /\ history = <<>>
  /\ procs = <<>>
  /\ presets = <<>>

SpecFault == InitFault /\ [][NextCaller]_vars

\* ---------------------------------------------------------------------
\* doctor_project
\* ---------------------------------------------------------------------

\* The marks that open the doctor's messages.
CheckMark   == <<"U+2705">>
CrossMark   == <<"U+274C">>
WarningSign == <<"U+26A0", "U+FE0F">>
Wrench      == <<"U+1F527">>

RULE_IDENTITY == <<"0", "0", "_", "i", "d", "e", "n", "t", "i", "t", "y", ".", "m", "d">>

RULE_SECURITY == <<"0", "2", "_", "s", "e", "c", "u", "r", "i", "t", "y", ".", "m", "d">>

\* _get_doctor_requirements: the required directories.
get_doctor_requirements_dirs ==
  << <<".", "a", "g", "e", "n", "t", "/", "r", "u", "l", "e", "s">>, <<".", "a", "g", "e", "n", "t", "/", "w", "o", "r", "k", "f", "l", "o", "w", "s">>, <<".", "a", "g", "e", "n", "t", "/", "s", "k", "i", "l", "l", "s">>, <<".", "a", "g", "e", "n", "t", "/", "m", "e", "m", "o", "r", "y">> >>

\* _get_doctor_requirements: the required files with their templates; the
\* script has an empty one.
get_doctor_requirements_files ==
  << [path |-> <<".", "a", "g", "e", "n", "t", "/", "r", "u", "l", "e", "s", "/">> \o RULE_IDENTITY, template |-> ContentOfEntry(AGENT_RULES, RULE_IDENTITY)],
     [path |-> <<".", "a", "g", "e", "n", "t", "/", "r", "u", "l", "e", "s", "/">> \o RULE_SECURITY, template |-> ContentOfEntry(AGENT_RULES, RULE_SECURITY)],
     [path |-> <<".", "a", "g", "e", "n", "t", "/", "w", "o", "r", "k", "f", "l", "o", "w", "s", "/", "p", "l", "a", "n", ".", "m", "d">>,       template |-> ContentOfEntry(AGENT_WORKFLOWS, <<"p", "l", "a", "n", ".", "m", "d">>)],
     [path |-> <<"a", "n", "t", "i", "g", "r", "a", "v", "i", "t", "y", "_", "m", "a", "s", "t", "e", "r", "_", "s", "e", "t", "u", "p", ".", "p", "y">>,    template |-> <<>>] >>

\* _get_doctor_optional_files: every one with an empty template.
get_doctor_optional_files ==
  LET files == << <<".", "g", "i", "t", "i", "g", "n", "o", "r", "e">>, <<"R", "E", "A", "D", "M", "E", ".", "m", "d">>, <<"C", "H", "A", "N", "G", "E", "L", "O", "G", ".", "m", "d">>,
                  <<"C", "O", "N", "T", "R", "I", "B", "U", "T", "I", "N", "G", ".", "m", "d">>, <<"A", "U", "D", "I", "T", ".", "m", "d">>, <<"S", "E", "C", "U", "R", "I", "T", "Y", ".", "m", "d">>,
                  <<"C", "O", "D", "E", "_", "O", "F", "_", "C", "O", "N", "D", "U", "C", "T", ".", "m", "d">>, <<"L", "I", "C", "E", "N", "S", "E">> >>
  IN  [i \in 1..Len(files) |-> [path |-> files[i], template |-> <<>>]]

\* full_path.mkdir(parents=True, exist_ok=True); (full_path / ".gitkeep").touch()
MkdirAndKeep(d, full_path) ==
  LET keep == PathJoin(full_path, <<".", "g", "i", "t", "k", "e", "e", "p">>)
  IN  [d EXCEPT !.dirs  = d.dirs \cup MakeDirs(full_path),
                !.files = IF keep \in DOMAIN d.files THEN d.files
                          ELSE Put(d.files, keep, <<>>)]

\* _doctor_check_dir: the disk after the check and the three messages, each
\* a list of none or one.
doctor_check_dir(d, base_dir, dir_path, fix) ==
  LET full_path == PathJoin(base_dir, dir_path)
  IN  IF PathExists(d, full_path)
        THEN [disk |-> d,
              passed |-> << CheckMark \o <<" ">> \o dir_path \o <<"/", " ", "e", "x", "i", "s", "t", "s">> >>,
              issues |-> <<>>, fixed |-> <<>>]
        ELSE [disk |-> IF fix THEN MkdirAndKeep(d, full_path) ELSE d,
              passed |-> <<>>,
              issues |-> << CrossMark \o <<" ", "M", "i", "s", "s", "i", "n", "g", ":", " ">> \o dir_path \o <<"/">> >>,
              fixed  |-> IF fix
                           THEN << Wrench \o <<" ", "C", "r", "e", "a", "t", "e", "d", " ">> \o dir_path \o <<"/">> >>
                           ELSE <<>>]

\* _doctor_check_file that with fix writes the template over a file that
\* has content as well.
doctor_check_file_rewriting(d, base_dir, file_path, template, fix, optional) ==
  LET full_path  == PathJoin(base_dir, file_path)
      is_missing == ~PathExists(d, full_path)
      is_empty   == full_path \in DOMAIN d.files /\ d.files[full_path] = <<>>
      fixing     == fix /\ template # <<>>
      after      == IF fixing
                      THEN [d EXCEPT !.dirs  = d.dirs \cup MakeDirs(Dirname(full_path)),
                                     !.files = Put(d.files, full_path, template)]
                      ELSE d
  IN  [disk |-> after,
       passed |-> IF ~is_missing /\ ~is_empty
                    THEN << CheckMark \o <<" ">> \o file_path \o <<" ", "e", "x", "i", "s", "t", "s">> >>
                    ELSE <<>>,
       warnings |-> IF is_empty
                      THEN << WarningSign \o <<" ", " ">> \o file_path \o <<" ", "i", "s", " ", "e", "m", "p", "t", "y">> >>
                      ELSE <<>>,
       issues |-> IF is_missing THEN << CrossMark \o <<" ", "M", "i", "s", "s", "i", "n", "g", ":", " ">> \o file_path >>
                  ELSE <<>>,
       fixed |-> IF fixing /\ is_missing THEN << Wrench \o <<" ", "G", "e", "n", "e", "r", "a", "t", "e", "d", " ">> \o file_path >>
                 ELSE IF fixing /\ is_empty
                   THEN << Wrench \o <<" ", "R", "e", "s", "t", "o", "r", "e", "d", " ", "c", "o", "n", "t", "e", "n", "t", " ", "t", "o", " ">> \o file_path >>
                 ELSE <<>>]

\* _doctor_check_file that regenerates missing files only and leaves an
\* empty file empty.
doctor_check_file_missing_only(d, base_dir, file_path, template, fix, optional) ==
  LET full_path  == PathJoin(base_dir, file_path)
      is_missing == ~PathExists(d, full_path)
      fixing     == fix /\ template # <<>> /\ is_missing
  IN  IF ~is_missing /\ d.files[full_path] # <<>>
        THEN [disk |-> d,
              passed |-> << CheckMark \o <<" ">> \o file_path \o <<" ", "e", "x", "i", "s", "t", "s">> >>,
              warnings |-> <<>>, issues |-> <<>>, fixed |-> <<>>]
        ELSE [disk |->
                IF fixing
                  THEN [d EXCEPT !.dirs  = d.dirs \cup MakeDirs(Dirname(full_path)),
                                 !.files = Put(d.files, full_path, template)]
                  ELSE d,
              passed |-> <<>>,
              warnings |->
                IF ~is_missing
                  THEN << WarningSign \o <<" ", " ">> \o file_path \o <<" ", "i", "s", " ", "e", "m", "p", "t", "y">> >>
                  ELSE <<>>,
              issues |->
                IF is_missing THEN << CrossMark \o <<" ", "M", "i", "s", "s", "i", "n", "g", ":", " ">> \o file_path >>
                ELSE <<>>,
              fixed |->
                IF fixing THEN << Wrench \o <<" ", "G", "e", "n", "e", "r", "a", "t", "e", "d", " ">> \o file_path >> ELSE <<>>]

\* _doctor_check_file that takes every file for an optional one.
doctor_check_file_lenient(d, base_dir, file_path, template, fix, optional) ==
  LET full_path  == PathJoin(base_dir, file_path)
      is_missing == ~PathExists(d, full_path)
      is_empty   == full_path \in DOMAIN d.files /\ d.files[full_path] = <<>>
  IN  IF ~is_missing /\ ~is_empty
        THEN [disk |-> d,
              passed |-> << CheckMark \o <<" ">> \o file_path \o <<" ", "e", "x", "i", "s", "t", "s">> >>,
              warnings |-> <<>>, issues |-> <<>>, fixed |-> <<>>]
        ELSE [disk |-> d, passed |-> <<>>,
              warnings |-> IF is_missing
                             THEN << WarningSign \o <<" ", " ", "O", "p", "t", "i", "o", "n", "a", "l", ":", " ">> \o file_path
                                       \o <<" ", "n", "o", "t", " ", "f", "o", "u", "n", "d">> >>
                             ELSE << WarningSign \o <<" ", " ">> \o file_path
                                       \o <<" ", "i", "s", " ", "e", "m", "p", "t", "y">> >>,
              issues |-> <<>>, fixed |-> <<>>]

\* _doctor_check_file: the disk after the check and the four messages.
doctor_check_file(d, base_dir, file_path, template, fix, optional) ==
  LET full_path  == PathJoin(base_dir, file_path)
      is_missing == ~PathExists(d, full_path)
      is_empty   == full_path \in DOMAIN d.files /\ d.files[full_path] = <<>>
      fixing     == fix /\ template # <<>>
  IN  IF ~is_missing /\ ~is_empty
        THEN [disk |-> d,
              passed |-> << CheckMark \o <<" ">> \o file_path \o <<" ", "e", "x", "i", "s", "t", "s">> >>,
              warnings |-> <<>>, issues |-> <<>>, fixed |-> <<>>]
        ELSE [disk |->
                IF fixing
                  THEN [d EXCEPT
                          !.dirs  = IF is_missing
                                      THEN d.dirs \cup MakeDirs(Dirname(full_path))
                                      ELSE d.dirs,
                          !.files = Put(d.files, full_path, template)]
                  ELSE d,
              passed |-> <<>>,
              warnings |->
                IF is_missing /\ optional
                  THEN << WarningSign \o <<" ", " ", "O", "p", "t", "i", "o", "n", "a", "l", ":", " ">> \o file_path
                            \o <<" ", "n", "o", "t", " ", "f", "o", "u", "n", "d">> >>
                ELSE IF ~is_missing
                  THEN << WarningSign \o <<" ", " ">> \o file_path \o <<" ", "i", "s", " ", "e", "m", "p", "t", "y">> >>
                ELSE <<>>,
              issues |->
                IF is_missing /\ ~optional
                  THEN << CrossMark \o <<" ", "M", "i", "s", "s", "i", "n", "g", ":", " ">> \o file_path >>
                  ELSE <<>>,
              fixed |->
                IF ~fixing THEN <<>>
                ELSE IF is_missing THEN << Wrench \o <<" ", "G", "e", "n", "e", "r", "a", "t", "e", "d", " ">> \o file_path >>
                ELSE << Wrench \o <<" ", "R", "e", "s", "t", "o", "r", "e", "d", " ", "c", "o", "n", "t", "e", "n", "t", " ", "t", "o", " ">> \o file_path >>]

\* _validate_doctor_dirs, from directory i on; acc holds the disk and the
\* lists so far.
RECURSIVE validate_doctor_dirs(_, _, _, _, _)
validate_doctor_dirs(acc, base_dir, dirs, i, fix) ==
  IF i > Len(dirs) THEN acc
  ELSE LET r == doctor_check_dir(acc.disk, base_dir, dirs[i], fix)
       IN  validate_doctor_dirs(
             [acc EXCEPT !.disk = r.disk,
                         !.passed = @ \o r.passed,
                         !.issues = @ \o r.issues,
                         !.fixed  = @ \o r.fixed],
             base_dir, dirs, i + 1, fix)

\* _validate_doctor_files, from file i on: is_optional = False for every
\* file, those of the optional list too.
RECURSIVE validate_doctor_files(_, _, _, _, _)
validate_doctor_files(acc, base_dir, files, i, fix) ==
  IF i > Len(files) THEN acc
  ELSE LET is_optional == FALSE
           r == doctor_check_file(acc.disk, base_dir, files[i].path,
                                  files[i].template, fix, is_optional)
       IN  validate_doctor_files(
             [acc EXCEPT !.disk = r.disk,
                         !.passed   = @ \o r.passed,
                         !.warnings = @ \o r.warnings,
                         !.issues   = @ \o r.issues,
                         !.fixed    = @ \o r.fixed],
             base_dir, files, i + 1, fix)

\* doctor_project: the disk after the call, the verdict returned and the
\* four lists printed.
doctor_project(d, project_path, fix) ==
  LET base_dir == project_path
      start == [disk |-> d, passed |-> <<>>, warnings |-> <<>>,
                issues |-> <<>>, fixed |-> <<>>]
  IN  IF ~PathExists(d, base_dir) THEN [start EXCEPT !.disk = d] @@ [ret |-> FALSE]
      ELSE LET a == validate_doctor_dirs(start, base_dir,
                                         get_doctor_requirements_dirs, 1, fix)
               b == validate_doctor_files(a, base_dir,
                                          get_doctor_requirements_files, 1, fix)
               c == validate_doctor_files(b, base_dir,
                                          get_doctor_optional_files, 1, fix)
               remaining_issues ==
                 Len(c.issues)
                   - Cardinality({i \in 1..Len(c.fixed) :
                                    \/ Contains(c.fixed[i], <<"M", "i", "s", "s", "i", "n", "g">>)
                                    \/ Contains(c.fixed[i], <<"R", "e", "g", "e", "n", "e", "r", "a", "t", "e", "d">>)})
               ret == IF remaining_issues > 0 /\ ~fix THEN FALSE
                      ELSE IF c.fixed # <<>> THEN TRUE
                      ELSE IF c.issues # <<>> THEN FALSE
                      ELSE TRUE
           IN  c @@ [ret |-> ret]

\* A project directory as the doctor may find it: which of the required
\* directories are there, which required files are missing, empty or
\* filled, and which of the optional files are there.  A file is there
\* only when its directory is.
FileStates == {"missing", "empty", "full"}

OptionalPaths == {get_doctor_optional_files[i].path : i \in 1..Len(get_doctor_optional_files)}

OptionalSets == {OptionalPaths, OptionalPaths \ { <<"L", "I", "C", "E", "N", "S", "E">> }, {}}

ProjectShapes ==
  {s \in [dirs : SUBSET Range(get_doctor_requirements_dirs),
          files : [1..Len(get_doctor_requirements_files) -> FileStates],
          optional : OptionalSets] :
     \A i \in 1..Len(get_doctor_requirements_files) :
        LET parent == Dirname(get_doctor_requirements_files[i].path)
        IN  s.files[i] # "missing" => (parent = <<>> \/ parent \in s.dirs)}

\* The disk that holds a project of shape s under BaseDir.
ProjectDisk(s) ==
  LET required == {i \in 1..Len(get_doctor_requirements_files) : s.files[i] # "missing"}
      paths == {PathJoin(BaseDir, get_doctor_requirements_files[i].path) : i \in required}
                 \cup {PathJoin(BaseDir, p) : p \in s.optional}
      content(p) ==
        IF \E i \in required :
              /\ p = PathJoin(BaseDir, get_doctor_requirements_files[i].path)
              /\ s.files[i] = "empty"
          THEN <<>>
          ELSE <<"t", "e", "x", "t">>
  IN  [files  |-> [p \in paths |-> content(p)],
       dirs   |-> {BaseDir} \cup UNION {MakeDirs(PathJoin(BaseDir, dir)) : dir \in s.dirs},
       denied |-> {}]

\* A disk without the project directory.
NoProjectDisk == [files |-> <<>>, dirs |-> {}, denied |-> {}]

\* The project paths the doctor is run on.
DoctorPaths == {BaseDir, <<"e", "l", "s", "e", "w", "h", "e", "r", "e">>}

\* The call doctor_project(project_path, fix).
DoctorProject(project_path, fix) ==
  /\ Len(history) < MaxRuns
  /\ \E r \in {doctor_project(disk, project_path, fix)} :
       /\ disk' = r.disk
       /\ last' = [op |-> "doctor_project", project_path |-> project_path,
                   fix |-> fix, ret |-> r.ret, passed |-> r.passed,
                   warnings |-> r.warnings, issues |-> r.issues,
                   fixed |-> r.fixed]
  /\ history' = Append(history, project_path)
  /\ UNCHANGED <<sources, input, procs, presets>>

InitDoctor ==
  /\ disk \in {ProjectDisk(s) : s \in ProjectShapes} \cup {NoProjectDisk}
  /\ sources = SourcesWith(<<>>)
  /\ input = NoInput
  /\ last = NoCall
  /\ history = <<>>
  /\ procs = <<>>
  /\ presets = <<>>

NextDoctor ==
  \E project_path \in DoctorPaths, fix \in BOOLEAN : DoctorProject(project_path, fix)

SpecDoctor == InitDoctor /\ [][NextDoctor]_vars

\* ---------------------------------------------------------------------
\* generate_project
\* ---------------------------------------------------------------------

RULE_ARCHITECTURE == <<"0", "5", "_", "a", "r", "c", "h", "i", "t", "e", "c", "t", "u", "r", "e", ".", "m", "d">>

RULE_SECURITY_EXPERT == <<"0", "7", "_", "s", "e", "c", "u", "r", "i", "t", "y", "_", "e", "x", "p", "e", "r", "t", ".", "m", "d">>

RULE_TECH_STACK == <<"0", "1", "_", "t", "e", "c", "h", "_", "s", "t", "a", "c", "k", ".", "m", "d">>

\* AntigravityResources.BLUEPRINTS
BLUEPRINTS ==
  [audio |->
     [dirs  |-> << <<"s", "r", "c", "/", "a", "u", "d", "i", "o">>, <<"s", "r", "c", "/", "d", "s", "p">>, <<"r", "e", "s", "o", "u", "r", "c", "e", "s", "/", "s", "a", "m", "p", "l", "e", "s">> >>,
      stack |-> << <<"p", "y", "t", "h", "o", "n">>, <<"n", "u", "m", "p", "y">>, <<"s", "c", "i", "p", "y">>, <<"l", "i", "b", "r", "o", "s", "a">> >>,
      rules |-> << RULE_ARCHITECTURE >>],
   medical |->
     [dirs  |-> << <<"s", "r", "c", "/", "e", "n", "c", "r", "y", "p", "t", "i", "o", "n">>, <<"s", "r", "c", "/", "h", "i", "p", "a", "a">>, <<"d", "o", "c", "s", "/", "c", "o", "m", "p", "l", "i", "a", "n", "c", "e">> >>,
      stack |-> << <<"p", "y", "t", "h", "o", "n">>, <<"c", "r", "y", "p", "t", "o", "g", "r", "a", "p", "h", "y">>, <<"p", "o", "s", "t", "g", "r", "e", "s">> >>,
      rules |-> << RULE_SECURITY, RULE_SECURITY_EXPERT >>],
   performance |->
     [dirs  |-> << <<"s", "r", "c", "/", "b", "e", "n", "c", "h", "m", "a", "r", "k", "s">>, <<"s", "r", "c", "/", "o", "p", "t">> >>,
      stack |-> << <<"p", "y", "t", "h", "o", "n">>, <<"r", "u", "s", "t">> >>,
      rules |-> << RULE_ARCHITECTURE >>],
   nextjs |->
     [dirs  |-> << <<"a", "p", "p">>, <<"c", "o", "m", "p", "o", "n", "e", "n", "t", "s">>, <<"l", "i", "b">>, <<"p", "u", "b", "l", "i", "c">>, <<"s", "t", "y", "l", "e", "s">> >>,
      stack |-> << <<"n", "e", "x", "t", "j", "s">>, <<"r", "e", "a", "c", "t">>, <<"t", "a", "i", "l", "w", "i", "n", "d">>, <<"t", "y", "p", "e", "s", "c", "r", "i", "p", "t">> >>,
      rules |-> << RULE_ARCHITECTURE >>],
   fastapi |->
     [dirs  |-> << <<"a", "p", "p", "/", "a", "p", "i">>, <<"a", "p", "p", "/", "c", "o", "r", "e">>, <<"a", "p", "p", "/", "m", "o", "d", "e", "l", "s">>, <<"a", "p", "p", "/", "s", "c", "h", "e", "m", "a", "s">>, <<"t", "e", "s", "t", "s">> >>,
      stack |-> << <<"p", "y", "t", "h", "o", "n">>, <<"f", "a", "s", "t", "a", "p", "i">>, <<"p", "y", "d", "a", "n", "t", "i", "c">>, <<"s", "q", "l", "a", "l", "c", "h", "e", "m", "y">> >>,
      rules |-> << RULE_ARCHITECTURE >>],
   go_fiber |->
     [dirs  |-> << <<"c", "m", "d", "/", "s", "e", "r", "v", "e", "r">>, <<"i", "n", "t", "e", "r", "n", "a", "l", "/", "h", "a", "n", "d", "l", "e", "r", "s">>, <<"i", "n", "t", "e", "r", "n", "a", "l", "/", "m", "o", "d", "e", "l", "s">>,
                   <<"i", "n", "t", "e", "r", "n", "a", "l", "/", "r", "o", "u", "t", "e", "s">>, <<"p", "k", "g", "/", "u", "t", "i", "l", "s">> >>,
      stack |-> << <<"g", "o">>, <<"f", "i", "b", "e", "r">>, <<"g", "o", "r", "m">>, <<"d", "o", "c", "k", "e", "r">> >>,
      rules |-> << RULE_ARCHITECTURE >>],
   rust_axum |->
     [dirs  |-> << <<"s", "r", "c", "/", "h", "a", "n", "d", "l", "e", "r", "s">>, <<"s", "r", "c", "/", "m", "o", "d", "e", "l", "s">>, <<"s", "r", "c", "/", "r", "o", "u", "t", "e", "s">>, <<"s", "r", "c", "/", "u", "t", "i", "l", "s">>,
                   <<"t", "e", "s", "t", "s">> >>,
      stack |-> << <<"r", "u", "s", "t">>, <<"a", "x", "u", "m">>, <<"t", "o", "k", "i", "o">>, <<"s", "e", "r", "d", "e">> >>,
      rules |-> << RULE_ARCHITECTURE >>]]

\* The empty dict.
NoBlueprintData == [dirs |-> <<>>, stack |-> <<>>, rules |-> <<>>]

\* _resolve_blueprint for a blueprint given by name ("" stands for None;
\* go-fiber and rust-axum are spelt with "_" here): the entry of the
\* table, or the empty dict.
resolve_blueprint(blueprint) ==
  IF blueprint = "" THEN NoBlueprintData
  ELSE IF blueprint \in DOMAIN BLUEPRINTS THEN BLUEPRINTS[blueprint]
  ELSE NoBlueprintData

\* The safe_mode argument: None, True or False.
NoMode == [none |-> TRUE, value |-> FALSE]

Mode(b) == [none |-> FALSE, value |-> b]

\* _handle_safe_mode that takes the answer 'o' for overwrite without
\* asking for the confirmation.
handle_safe_mode_unconfirmed(d, base_dir, safe_mode, choice, confirm) ==
  IF safe_mode.none /\ PathExists(d, base_dir)
    THEN IF Lower(choice) = <<"u">> THEN Mode(TRUE)
         ELSE IF Lower(choice) = <<"o">> THEN Mode(FALSE)
         ELSE NoMode
  ELSE IF safe_mode.none THEN Mode(FALSE)
  ELSE safe_mode

\* _handle_safe_mode: the mode, or None for a cancelled run.  The prompt
\* is shown only when safe_mode is None and the directory exists.
handle_safe_mode(d, base_dir, safe_mode, choice, confirm) ==
  IF safe_mode.none /\ PathExists(d, base_dir)
    THEN IF Lower(choice) = <<"u">> THEN Mode(TRUE)
         ELSE IF Lower(choice) = <<"o">>
           THEN IF Lower(confirm) # <<"y", "e", "s">> THEN NoMode ELSE Mode(FALSE)
         ELSE NoMode
  ELSE IF safe_mode.none THEN Mode(FALSE)
  ELSE safe_mode

\* What the log holds after a run: the line of the first folder made (the
\* time stamps and the other lines are left out).
LogHead(base_dir) ==
  <<"[", "I", "N", "F", "O", "]", " ">> \o <<"U+F8FF", "U+00FC", "U+00EC", "U+00C5">> \o <<" ", "D", "i", "r", "e", "c", "t", "o", "r", "y", ":", " ">>
    \o PathJoin(base_dir, <<"s", "r", "c">>)

\* setup_logging(log_dir): the directory is made and the log file is
\* opened with mode "w"; the run then writes its lines to it.
setup_logging(d, log_dir) ==
  LET log_path == PathJoin(log_dir, <<"a", "n", "t", "i", "g", "r", "a", "v", "i", "t", "y", "_", "s", "e", "t", "u", "p", ".", "l", "o", "g">>)
  IN  [d EXCEPT !.dirs  = d.dirs \cup MakeDirs(log_dir),
                   !.files = Put(d.files, log_path, LogHead(log_dir))]

\* create_folder: makedirs, then .gitkeep is opened with mode "w" and
\* gets the empty string.
create_folder(d, path) ==
  LET gitkeep_path == PathJoin(path, <<".", "g", "i", "t", "k", "e", "e", "p">>)
  IN  IF MakeDirsFails(d, gitkeep_path) THEN d
      ELSE IF OpenFails(d, gitkeep_path)
        THEN [d EXCEPT !.dirs = d.dirs \cup MakeDirs(path)]
        ELSE [d EXCEPT !.dirs  = d.dirs \cup MakeDirs(path),
                          !.files = Put(d.files, gitkeep_path, <<>>)]

\* for d in directories: create_folder(os.path.join(base_dir, d))
RECURSIVE CreateFolders(_, _, _, _)
CreateFolders(d, base_dir, directories, i) ==
  IF i > Len(directories) THEN d
  ELSE LET next == create_folder(d, PathJoin(base_dir, directories[i]))
       IN  IF next = d THEN CreateFolders(d, base_dir, directories, i + 1)
           ELSE CreateFolders(next, base_dir, directories, i + 1)

\* A run of write_file calls, each [path, content, exist_ok].
RECURSIVE WriteAll(_, _, _)
WriteAll(d, writes, i) ==
  IF i > Len(writes) THEN d
  ELSE LET next == write_file(d, writes[i].path, writes[i].content,
                              writes[i].exist_ok)
       IN  IF next = d THEN WriteAll(d, writes, i + 1)
           ELSE WriteAll(next, writes, i + 1)

W(path, content, exist_ok) ==
  [path |-> path, content |-> content, exist_ok |-> exist_ok]

\* sep.join(words)
RECURSIVE Join(_, _)
Join(sep, words) ==
  IF words = <<>> THEN <<>>
  ELSE IF Len(words) = 1 THEN words[1]
  ELSE words[1] \o sep \o Join(sep, Tail(words))

\* _get_directory_structure
get_directory_structure(blueprint_data) ==
  << <<"s", "r", "c">>, <<"t", "e", "s", "t", "s">>, <<"d", "o", "c", "s", "/", "i", "m", "p", "o", "r", "t", "e", "d">>, <<"c", "o", "n", "t", "e", "x", "t", "/", "r", "a", "w">>, <<".", "v", "s", "c", "o", "d", "e">>,
     <<".", "i", "d", "x">>, <<".", "d", "e", "v", "c", "o", "n", "t", "a", "i", "n", "e", "r">>, <<".", "g", "i", "t", "e", "a">>, <<".", "g", "i", "t", "e", "a", "/", "w", "o", "r", "k", "f", "l", "o", "w", "s">>,
     <<".", "g", "i", "t", "h", "u", "b", "/", "w", "o", "r", "k", "f", "l", "o", "w", "s">>,
     AGENT_DIR \o <<"/", "r", "u", "l", "e", "s">>, AGENT_DIR \o <<"/", "w", "o", "r", "k", "f", "l", "o", "w", "s">>,
     AGENT_DIR \o <<"/", "s", "k", "i", "l", "l", "s">>, AGENT_DIR \o <<"/", "m", "e", "m", "o", "r", "y">>,
     AGENT_DIR \o <<"/", "s", "k", "i", "l", "l", "s", "/", "g", "i", "t", "_", "a", "u", "t", "o", "m", "a", "t", "i", "o", "n">>,
     AGENT_DIR \o <<"/", "s", "k", "i", "l", "l", "s", "/", "s", "e", "c", "r", "e", "t", "s", "_", "m", "a", "n", "a", "g", "e", "r">>,
     AGENT_DIR \o <<"/", "s", "k", "i", "l", "l", "s", "/", "b", "r", "i", "d", "g", "e">>, <<"s", "c", "r", "i", "p", "t", "s">> >>
    \o blueprint_data.dirs

\* The first line of each block of GITIGNORE_MAP that the stacks of this
\* model can ask for.
GITIGNORE_MAP ==
  << [name |-> <<"p", "y", "t", "h", "o", "n">>, content |-> <<"#", " ", "-", "-", "-", " ", "P", "y", "t", "h", "o", "n", " ", "-", "-", "-">>],
     [name |-> <<"n", "o", "d", "e">>,   content |-> <<"#", " ", "-", "-", "-", " ", "N", "o", "d", "e", "/", "J", "S", " ", "-", "-", "-">>],
     [name |-> <<"l", "i", "n", "u", "x">>,  content |-> <<"#", " ", "-", "-", "-", " ", "L", "i", "n", "u", "x", " ", "-", "-", "-">>] >>

\* build_gitignore: the base block, then the block of every keyword that
\* has one, in the order of the keywords.
RECURSIVE build_gitignore_from(_, _)
build_gitignore_from(content, keywords) ==
  IF keywords = <<>> THEN content
  ELSE LET k == Head(keywords)
       IN  build_gitignore_from(
             IF HasEntry(GITIGNORE_MAP, k)
               THEN content \o <<"\n">> \o ContentOfEntry(GITIGNORE_MAP, k)
             ELSE IF k \in { <<"j", "s">>, <<"j", "a", "v", "a", "s", "c", "r", "i", "p", "t">> }
               THEN content \o <<"\n">> \o ContentOfEntry(GITIGNORE_MAP, <<"n", "o", "d", "e">>)
             ELSE content,
             Tail(keywords))

build_gitignore(keywords) ==
  build_gitignore_from(<<"\n">> \o BASE_GITIGNORE, keywords)

\* keyword_aliases of build_nix_config
NixAlias(k) ==
  IF k \in { <<"j", "s">>, <<"j", "a", "v", "a", "s", "c", "r", "i", "p", "t">>, <<"r", "e", "a", "c", "t">>, <<"n", "e", "x", "t", "j", "s">> } THEN <<"n", "o", "d", "e">>
  ELSE IF k \in { <<"d", "j", "a", "n", "g", "o">>, <<"f", "l", "a", "s", "k">>, <<"f", "a", "s", "t", "a", "p", "i">> } THEN <<"p", "y", "t", "h", "o", "n">>
  ELSE k

\* build_nix_config: the first line, then the sorted packages; of the
\* packages of a language the first one is kept.
build_nix_config(keywords) ==
  LET keys == {NixAlias(keywords[i]) : i \in 1..Len(keywords)}
  IN  <<"#", " ", "G", "o", "o", "g", "l", "e", " ", "P", "r", "o", "j", "e", "c", "t", " ", "I", "D", "X", " ", "E", "n", "v", "i", "r", "o", "n", "m", "e", "n", "t", " ", "C", "o", "n", "f", "i", "g", "u", "r", "a", "t", "i", "o", "n">>
        \o <<" ", "p", "k", "g", "s", ".", "c", "u", "r", "l", " ", "p", "k", "g", "s", ".", "g", "i", "t", " ", "p", "k", "g", "s", ".", "j", "q">>
        \o (IF <<"n", "o", "d", "e">> \in keys THEN <<" ", "p", "k", "g", "s", ".", "n", "o", "d", "e", "j", "s", "_", "2", "0">> ELSE <<>>)
        \o <<" ", "p", "k", "g", "s", ".", "o", "p", "e", "n", "s", "s", "l">>
        \o (IF <<"p", "y", "t", "h", "o", "n">> \in keys THEN <<" ", "p", "k", "g", "s", ".", "p", "y", "t", "h", "o", "n", "3", "1", "2">> ELSE <<>>)

\* build_tech_stack_rule: the first two lines.
build_tech_stack_rule(keywords) ==
  <<"#", " ", "T", "e", "c", "h", "n", "o", "l", "o", "g", "y", " ", "S", "t", "a", "c", "k">> \o <<"\n">> \o <<"K", "e", "y", "w", "o", "r", "d", "s", " ", "D", "e", "t", "e", "c", "t", "e", "d", ":", " ">>
    \o Join(<<",", " ">>, keywords)

\* build_scratchpad: the title and the line of the stack (the line of the
\* time is left out).
build_scratchpad(keywords, has_brain_dump) ==
  <<"#", " ", "P", "r", "o", "j", "e", "c", "t", " ", "S", "c", "r", "a", "t", "c", "h", "p", "a", "d">> \o <<"\n">> \o <<"-", " ", "T", "e", "c", "h", " ", "S", "t", "a", "c", "k", ":", " ">>
    \o Join(<<",", " ">>, keywords) \o <<".">> \o <<"\n">> \o <<"-", " ", "I", "m", "p", "o", "r", "t", "e", "d", " ", "K", "n", "o", "w", "l", "e", "d", "g", "e", ":", " ">>
    \o (IF has_brain_dump THEN <<"Y", "e", "s">> ELSE <<"N", "o">>) \o <<".">>

\* keyword_aliases of build_vscode_config
VscodeAlias(k) ==
  IF k = <<"j", "s">> THEN <<"j", "a", "v", "a", "s", "c", "r", "i", "p", "t">>
  ELSE IF k = <<"t", "s">> THEN <<"t", "y", "p", "e", "s", "c", "r", "i", "p", "t">>
  ELSE IF k = <<"n", "e", "x", "t", "j", "s">> THEN <<"r", "e", "a", "c", "t">>
  ELSE IF k \in { <<"f", "a", "s", "t", "a", "p", "i">>, <<"d", "j", "a", "n", "g", "o">>, <<"f", "l", "a", "s", "k">> } THEN <<"p", "y", "t", "h", "o", "n">>
  ELSE k

\* The loop of build_vscode_config that settles default_formatter.
RECURSIVE DefaultFormatter(_, _)
DefaultFormatter(keywords, default_formatter) ==
  IF keywords = <<>> THEN default_formatter
  ELSE LET key == VscodeAlias(Head(keywords))
       IN  DefaultFormatter(Tail(keywords),
             IF key = <<"p", "y", "t", "h", "o", "n">> THEN <<"c", "h", "a", "r", "l", "i", "e", "r", "m", "a", "r", "s", "h", ".", "r", "u", "f", "f">>
             ELSE IF /\ key \in { <<"j", "a", "v", "a", "s", "c", "r", "i", "p", "t">>, <<"t", "y", "p", "e", "s", "c", "r", "i", "p", "t">>, <<"r", "e", "a", "c", "t">>, <<"n", "o", "d", "e">> }
                     /\ default_formatter = <<"n", "o", "n", "e">>
               THEN <<"e", "s", "b", "e", "n", "p", ".", "p", "r", "e", "t", "t", "i", "e", "r", "-", "v", "s", "c", "o", "d", "e">>
             ELSE default_formatter)

\* build_vscode_config: the five files; extensions.json is cut down to the
\* extensions that tell the languages apart, settings.json to its formatter.
build_vscode_config(keywords) ==
  LET keys == {VscodeAlias(keywords[i]) : i \in 1..Len(keywords)}
  IN  << [name |-> <<"e", "x", "t", "e", "n", "s", "i", "o", "n", "s", ".", "j", "s", "o", "n">>,
          content |-> <<"r", "e", "c", "o", "m", "m", "e", "n", "d", "a", "t", "i", "o", "n", "s", ":">>
            \o (IF keys \cap { <<"n", "o", "d", "e">>, <<"j", "a", "v", "a", "s", "c", "r", "i", "p", "t">>, <<"t", "y", "p", "e", "s", "c", "r", "i", "p", "t">> } # {}
                  THEN <<" ", "d", "b", "a", "e", "u", "m", "e", "r", ".", "v", "s", "c", "o", "d", "e", "-", "e", "s", "l", "i", "n", "t">> ELSE <<>>)
            \o <<" ", "e", "a", "m", "o", "d", "i", "o", ".", "g", "i", "t", "l", "e", "n", "s">>
            \o (IF <<"p", "y", "t", "h", "o", "n">> \in keys THEN <<" ", "m", "s", "-", "p", "y", "t", "h", "o", "n", ".", "p", "y", "t", "h", "o", "n">> ELSE <<>>)],
         [name |-> <<"s", "e", "t", "t", "i", "n", "g", "s", ".", "j", "s", "o", "n">>,
          content |-> <<"e", "d", "i", "t", "o", "r", ".", "d", "e", "f", "a", "u", "l", "t", "F", "o", "r", "m", "a", "t", "t", "e", "r", ":", " ">>
            \o DefaultFormatter(keywords, <<"n", "o", "n", "e">>)],
         [name |-> <<"l", "a", "u", "n", "c", "h", ".", "j", "s", "o", "n">>, content |-> VSCODE_LAUNCH_TEMPLATE],
         [name |-> <<"t", "a", "s", "k", "s", ".", "j", "s", "o", "n">>, content |-> VSCODE_TASKS_TEMPLATE],
         [name |-> <<"a", "n", "t", "i", "g", "r", "a", "v", "i", "t", "y", ".", "c", "o", "d", "e", "-", "s", "n", "i", "p", "p", "e", "t", "s">>,
          content |-> VSCODE_SNIPPETS_TEMPLATE] >>

\* The order of the characters of a file name (their code points).
NameChars ==
  <<".">> \o <<"0", "1", "2", "3", "4", "5", "6", "7", "8", "9">> \o UpperChars
    \o <<"_">> \o LowerChars

NameOrd(c) == CHOOSE i \in 1..Len(NameChars) : NameChars[i] = c

NameLess(a, b) ==
  \E n \in 0..Len(a) :
     /\ n <= Len(b)
     /\ \A i \in 1..n : a[i] = b[i]
     /\ \/ n = Len(a) /\ n < Len(b)
        \/ n < Len(a) /\ n < Len(b) /\ NameOrd(a[n + 1]) < NameOrd(b[n + 1])

\* sorted(os.listdir(docs_dir)) for the files of the directory.
RECURSIVE SortedNames(_)
SortedNames(S) ==
  IF S = {} THEN <<>>
  ELSE LET m == CHOOSE x \in S : \A y \in S \ {x} : NameLess(x, y)
       IN  <<m>> \o SortedNames(S \ {m})

\* The name of path p inside directory dir.
Basename(p) == SubSeq(p, Len(Dirname(p)) + 2, Len(p))

EndsWith(s, k) == Len(k) <= Len(s) /\ SubSeq(s, Len(s) - Len(k) + 1, Len(s)) = k

\* f.replace(".md", "").replace("_", " ")
RECURSIVE ReplaceAll(_, _, _)
ReplaceAll(s, k, by) ==
  IF Len(s) < Len(k) THEN s
  ELSE IF SubSeq(s, 1, Len(k)) = k
    THEN by \o ReplaceAll(SubSeq(s, Len(k) + 1, Len(s)), k, by)
  ELSE <<s[1]>> \o ReplaceAll(Tail(s), k, by)

\* build_docs_index
build_docs_index(d, docs_dir) ==
  LET head  == <<"#", " ", "D", "o", "c", "u", "m", "e", "n", "t", "a", "t", "i", "o", "n", " ", "I", "n", "d", "e", "x">> \o <<"\n", "\n">>
      files == SortedNames({Basename(p) : p \in {q \in DOMAIN d.files :
                                                   Dirname(q) = docs_dir}})
      line(f) ==
        IF EndsWith(f, <<".", "m", "d">>) /\ f # <<"I", "N", "D", "E", "X", ".", "m", "d">>
          THEN <<"-", " ", "[">> \o Title(ReplaceAll(ReplaceAll(f, <<".", "m", "d">>, <<>>), <<"_">>, <<" ">>))
                 \o <<"]", "(">> \o f \o <<")">> \o <<"\n">>
          ELSE <<>>
  IN  IF ~PathExists(d, docs_dir) \/ files = <<>>
        THEN head \o <<"_", "N", "o", " ", "d", "o", "c", "u", "m", "e", "n", "t", "s", " ", "i", "m", "p", "o", "r", "t", "e", "d", " ", "y", "e", "t", ".", "_">>
        ELSE head \o <<"#", "#", " ", "A", "s", "s", "i", "m", "i", "l", "a", "t", "e", "d", " ", "K", "n", "o", "w", "l", "e", "d", "g", "e">> \o <<"\n">>
               \o Concat([i \in 1..Len(files) |-> line(files[i])])

\* _inherit_global_rules: the rules of ~/.antigravity/rules, each
\* [name, content].
inherit_global_rules(d, base_dir, safe_mode, global_rules) ==
  WriteAll(d,
    [i \in 1..Len(global_rules) |->
       W(PathJoin(PathJoin(PathJoin(base_dir, AGENT_DIR), <<"r", "u", "l", "e", "s">>),
                  <<"g", "l", "o", "b", "a", "l", "_">> \o global_rules[i].name),
         global_rules[i].content, safe_mode)], 1)

\* _generate_core_config_files; of the README the title and the badge of
\* the stack are kept, of the other templates the first line.
generate_core_config_files(d, base_dir, project_name, final_stack, safe_mode) ==
  LET d1 == WriteAll(d,
        << W(PathJoin(base_dir, <<".", "g", "i", "t", "i", "g", "n", "o", "r", "e">>), build_gitignore(final_stack), TRUE),
           W(PathJoin(PathJoin(base_dir, <<".", "i", "d", "x">>), <<"d", "e", "v", ".", "n", "i", "x">>),
             build_nix_config(final_stack), safe_mode),
           W(PathJoin(PathJoin(base_dir, <<".", "d", "e", "v", "c", "o", "n", "t", "a", "i", "n", "e", "r">>), <<"d", "e", "v", "c", "o", "n", "t", "a", "i", "n", "e", "r", ".", "j", "s", "o", "n">>),
             DEVCONTAINER_JSON, safe_mode),
           W(PathJoin(base_dir, <<"R", "E", "A", "D", "M", "E", ".", "m", "d">>),
             <<"#", " ">> \o project_name \o <<"\n">> \o <<"s", "t", "a", "c", "k", "-">>
               \o Join(<<",", " ">>, final_stack) \o <<"-", "b", "l", "u", "e", ".", "s", "v", "g">>, TRUE),
           W(PathJoin(base_dir, <<".", "e", "n", "v", ".", "e", "x", "a", "m", "p", "l", "e">>),
             <<"A", "P", "I", "_", "K", "E", "Y", "=">> \o <<"\n">> \o <<"D", "B", "_", "U", "R", "L", "=">>, safe_mode),
           W(PathJoin(PathJoin(PathJoin(PathJoin(base_dir, AGENT_DIR), <<"s", "k", "i", "l", "l", "s">>),
                               <<"b", "r", "i", "d", "g", "e">>), <<"b", "r", "i", "d", "g", "e", ".", "p", "y">>),
             ContentOfEntry(AGENT_SKILLS, <<"b", "r", "i", "d", "g", "e", "/", "b", "r", "i", "d", "g", "e", ".", "p", "y">>), safe_mode),
           W(PathJoin(PathJoin(base_dir, <<"d", "o", "c", "s">>), <<"A", "R", "C", "H", "I", "T", "E", "C", "T", "U", "R", "E", ".", "m", "d">>),
             MERMAID_PROJECT_MAP, safe_mode),
           W(PathJoin(PathJoin(base_dir, <<"c", "o", "n", "t", "e", "x", "t">>), <<"l", "i", "n", "k", "s", ".", "m", "d">>),
             <<"#", " ">> \o <<"U+F8FF", "U+00FC", "U+00E5", "U+00E2">>
               \o <<" ", "M", "u", "l", "t", "i", "-", "R", "e", "p", "o", " ", "C", "o", "n", "t", "e", "x", "t", " ", "B", "r", "i", "d", "g", "e">>, safe_mode) >>, 1)
      docs_dir == PathJoin(PathJoin(base_dir, <<"d", "o", "c", "s">>), <<"i", "m", "p", "o", "r", "t", "e", "d">>)
  IN  WriteAll(d1,
        << W(PathJoin(docs_dir, <<"I", "N", "D", "E", "X", ".", "m", "d">>), build_docs_index(d1, docs_dir), TRUE),
           W(PathJoin(base_dir, <<"B", "O", "O", "T", "S", "T", "R", "A", "P", "_", "I", "N", "S", "T", "R", "U", "C", "T", "I", "O", "N", "S", ".", "m", "d">>),
             <<"#", " ", "A", "g", "e", "n", "t", " ", "S", "t", "a", "r", "t", " ", "G", "u", "i", "d", "e">>, safe_mode) >>, 1)

\* LICENSE_TEMPLATES: the first line of each license text.
LICENSE_TEMPLATES ==
  [mit |-> <<"M", "I", "T", " ", "L", "i", "c", "e", "n", "s", "e">>,
   apache |-> <<"A", "p", "a", "c", "h", "e", " ", "L", "i", "c", "e", "n", "s", "e">>,
   gpl |-> <<"G", "N", "U", " ", "G", "E", "N", "E", "R", "A", "L", " ", "P", "U", "B", "L", "I", "C", " ", "L", "I", "C", "E", "N", "S", "E">>]

\* _generate_license: the text of the license asked for, the MIT text for
\* a name the table lacks.
generate_license(d, base_dir, license_type, safe_mode) ==
  LET license_content == IF license_type \in DOMAIN LICENSE_TEMPLATES
                           THEN LICENSE_TEMPLATES[license_type]
                           ELSE LICENSE_TEMPLATES["mit"]
  IN  write_file(d, PathJoin(base_dir, <<"L", "I", "C", "E", "N", "S", "E">>), license_content, safe_mode)

\* generate_community_standards
generate_community_standards(d, base_dir, safe_mode) ==
  WriteAll(d,
    [i \in 1..Len(CommunityFiles) |->
       W(PathJoin(base_dir, CommunityFiles[i].name), CommunityFiles[i].content,
         safe_mode)], 1)

\* generate_github_templates; of the Copilot instructions the title and the
\* sentence of the stack are kept.
generate_github_templates(d, base_dir, final_stack, safe_mode) ==
  LET github_dir == PathJoin(base_dir, <<".", "g", "i", "t", "h", "u", "b">>)
      workflow_dir == PathJoin(github_dir, <<"w", "o", "r", "k", "f", "l", "o", "w", "s">>)
      issue_template_dir == PathJoin(github_dir, <<"I", "S", "S", "U", "E", "_", "T", "E", "M", "P", "L", "A", "T", "E">>)
      d1 == create_folder(create_folder(d, workflow_dir), issue_template_dir)
  IN  WriteAll(d1,
        << W(PathJoin(issue_template_dir, <<"b", "u", "g", "_", "r", "e", "p", "o", "r", "t", ".", "m", "d">>), GITHUB_BUG_REPORT, safe_mode),
           W(PathJoin(issue_template_dir, <<"f", "e", "a", "t", "u", "r", "e", "_", "r", "e", "q", "u", "e", "s", "t", ".", "m", "d">>),
             GITHUB_FEATURE_REQUEST, safe_mode),
           W(PathJoin(issue_template_dir, <<"q", "u", "e", "s", "t", "i", "o", "n", ".", "m", "d">>), GITHUB_QUESTION, safe_mode),
           W(PathJoin(issue_template_dir, <<"c", "o", "n", "f", "i", "g", ".", "y", "m", "l">>), GITHUB_ISSUE_CONFIG, safe_mode),
           W(PathJoin(github_dir, <<"P", "U", "L", "L", "_", "R", "E", "Q", "U", "E", "S", "T", "_", "T", "E", "M", "P", "L", "A", "T", "E", ".", "m", "d">>), GITHUB_PR_TEMPLATE, safe_mode),
           W(PathJoin(github_dir, <<"F", "U", "N", "D", "I", "N", "G", ".", "y", "m", "l">>), GITHUB_FUNDING, safe_mode),
           W(PathJoin(github_dir, <<"c", "o", "p", "i", "l", "o", "t", "-", "i", "n", "s", "t", "r", "u", "c", "t", "i", "o", "n", "s", ".", "m", "d">>),
             <<"#", " ", "G", "i", "t", "H", "u", "b", " ", "C", "o", "p", "i", "l", "o", "t", " ", "I", "n", "s", "t", "r", "u", "c", "t", "i", "o", "n", "s">> \o <<"\n">> \o <<"T", "h", "i", "s", " ", "p", "r", "o", "j", "e", "c", "t", " ", "u", "s", "e", "s", " ", "*", "*">>
               \o Join(<<",", " ">>, final_stack) \o <<"*", "*">>, safe_mode),
           W(PathJoin(workflow_dir, <<"c", "i", ".", "y", "m", "l">>), GITHUB_CI_TEMPLATE, safe_mode) >>, 1)

\* _generate_vscode_config
generate_vscode_config(d, base_dir, final_stack, safe_mode) ==
  LET vscode_files == build_vscode_config(final_stack)
  IN  WriteAll(d,
        [i \in 1..Len(vscode_files) |->
           W(PathJoin(PathJoin(base_dir, <<".", "v", "s", "c", "o", "d", "e">>), vscode_files[i].name),
             vscode_files[i].content, safe_mode)], 1)

\* generate_agent_files
generate_agent_files(d, base_dir, project_name, keywords, safe_mode) ==
  LET agent == PathJoin(base_dir, AGENT_DIR)
      under(dir, table) ==
        [i \in 1..Len(table) |->
           W(PathJoin(PathJoin(agent, dir), table[i].name), table[i].content,
             safe_mode)]
  IN  WriteAll(d,
        << W(PathJoin(agent, <<"m", "a", "n", "i", "f", "e", "s", "t", ".", "j", "s", "o", "n">>), AGENT_MANIFEST_TEMPLATE, safe_mode) >>
        \o under(<<"r", "u", "l", "e", "s">>, AGENT_RULES)
        \o << W(PathJoin(PathJoin(agent, <<"r", "u", "l", "e", "s">>), RULE_TECH_STACK),
                build_tech_stack_rule(keywords), safe_mode) >>
        \o under(<<"w", "o", "r", "k", "f", "l", "o", "w", "s">>, AGENT_WORKFLOWS)
        \o under(<<"s", "k", "i", "l", "l", "s">>, AGENT_SKILLS)
        \o << W(PathJoin(PathJoin(agent, <<"m", "e", "m", "o", "r", "y">>), <<"s", "c", "r", "a", "t", "c", "h", "p", "a", "d", ".", "m", "d">>),
                build_scratchpad(keywords, FALSE), safe_mode),
              W(PathJoin(PathJoin(agent, <<"m", "e", "m", "o", "r", "y">>), <<"g", "r", "a", "v", "e", "y", "a", "r", "d", ".", "m", "d">>),
                GRAVEYARD_TEMPLATE, safe_mode),
              W(PathJoin(PathJoin(agent, <<"m", "e", "m", "o", "r", "y">>), <<"e", "v", "o", "l", "u", "t", "i", "o", "n", ".", "m", "d">>),
                EVOLUTION_TEMPLATE, safe_mode),
              W(PathJoin(PathJoin(base_dir, <<"s", "c", "r", "i", "p", "t", "s">>), <<"s", "e", "n", "t", "i", "n", "e", "l", ".", "p", "y">>),
                SENTINEL_PY, safe_mode) >>, 1)

\* _apply_blueprint_rules: every rule of the blueprint that AGENT_RULES
\* has is written with exist_ok=False.
apply_blueprint_rules(d, base_dir, blueprint_data) ==
  LET rules == blueprint_data.rules
      known == AtPositions(rules, {i \in 1..Len(rules) : HasEntry(AGENT_RULES, rules[i])})
  IN  WriteAll(d,
        [i \in 1..Len(known) |->
           W(PathJoin(PathJoin(PathJoin(base_dir, AGENT_DIR), <<"r", "u", "l", "e", "s">>), known[i]),
             ContentOfEntry(AGENT_RULES, known[i]), FALSE)], 1)

\* _setup_git_hooks: when .git exists the hook is opened with mode "w";
\* an exception is swallowed (the hooks directory is not made).
setup_git_hooks(d, base_dir) ==
  LET git_dir   == PathJoin(base_dir, <<".", "g", "i", "t">>)
      hook_path == PathJoin(PathJoin(git_dir, <<"h", "o", "o", "k", "s">>), <<"p", "o", "s", "t", "-", "c", "o", "m", "m", "i", "t">>)
  IN  IF ~PathExists(d, git_dir) THEN d
      ELSE IF Dirname(hook_path) \notin d.dirs \/ OpenFails(d, hook_path) THEN d
      ELSE [d EXCEPT !.files =
              Put(d.files, hook_path,
                  <<"#", "!", "/", "u", "s", "r", "/", "b", "i", "n", "/", "e", "n", "v", " ", "p", "y", "t", "h", "o", "n", "3">> \o <<"\n">>
                    \o <<"#", " ", "A", "n", "t", "i", "g", "r", "a", "v", "i", "t", "y", " ", "T", "i", "m", "e", "-", "T", "r", "a", "v", "e", "l", " ", "h", "o", "o", "k">> \o <<"\n">>)]

\* list(set(keywords + detected_stack)) without the set: the two lists one
\* after the other.
final_stacks_listed(keywords, detected_stack) ==
  LET n == Cardinality(detected_stack)
  IN  IF keywords = <<>> /\ n = 0 THEN {<< <<"l", "i", "n", "u", "x">> >>}
      ELSE {keywords \o s : s \in {t \in [1..n -> detected_stack] :
                                      Range(t) = detected_stack}}

\* final_stack = list(set(keywords + detected_stack)), ["linux"] when that
\* is empty: the lists that may come out, one for every order of the set.
final_stacks(keywords, detected_stack) ==
  LET merged == Range(keywords) \cup detected_stack
      n == Cardinality(merged)
  IN  IF merged = {} THEN {<< <<"l", "i", "n", "u", "x">> >>}
      ELSE {s \in [1..n -> merged] : Range(s) = merged}

\* generate_project up to the merge of the keywords: the mode is settled,
\* the log is opened, the blueprint is resolved and its stack is added to
\* the caller's list, the directories are made and the brain dump is
\* assimilated.
generate_project_setup(d, srcs, args) ==
  LET base_dir == args.project_name
      mode == handle_safe_mode(d, base_dir, args.safe_mode, args.choice, args.confirm)
      blueprint_data == resolve_blueprint(args.blueprint)
      keywords == args.keywords \o blueprint_data.stack
      d1 == setup_logging(d, base_dir)
      d2 == CreateFolders(d1, base_dir, get_directory_structure(blueprint_data), 1)
      dump == IF ~args.brain_dump_path.none /\ args.brain_dump_path.path # <<>>
                THEN process_brain_dump(d2, srcs, args.brain_dump_path, base_dir)
                ELSE [disk |-> d2, ret |-> {}]
  IN  IF mode.none
        THEN [cancelled |-> TRUE, disk |-> d, safe_mode |-> FALSE,
              blueprint_data |-> blueprint_data, keywords |-> args.keywords,
              detected_stack |-> {}]
        ELSE [cancelled |-> FALSE, disk |-> dump.disk, safe_mode |-> mode.value,
              blueprint_data |-> blueprint_data, keywords |-> keywords,
              detected_stack |-> dump.ret]

\* generate_project from the merge on: the generators in their order, each
\* with the stack it is handed.
generate_project_files(st, args, final_stack) ==
  LET base_dir == args.project_name
      d1 == inherit_global_rules(st.disk, base_dir, st.safe_mode, args.global_rules)
      d2 == generate_core_config_files(d1, base_dir, args.project_name,
                                       final_stack, st.safe_mode)
      d3 == generate_license(d2, base_dir, args.license_type, st.safe_mode)
      d4 == generate_community_standards(d3, base_dir, st.safe_mode)
      d5 == generate_github_templates(d4, base_dir, final_stack, st.safe_mode)
      d6 == generate_vscode_config(d5, base_dir, final_stack, st.safe_mode)
      d7 == generate_agent_files(d6, base_dir, args.project_name, final_stack,
                                 st.safe_mode)
      d8 == apply_blueprint_rules(d7, base_dir, st.blueprint_data)
  IN  setup_git_hooks(d8, base_dir)

\* The caller's keyword lists.
KeywordLists == { <<>>, << <<"l", "i", "n", "u", "x">> >>, << <<"p", "y", "t", "h", "o", "n">>, <<"p", "y", "t", "h", "o", "n">> >> }

\* The answers at the prompt: the choice and the confirmation.
Answers ==
  { [choice |-> <<"U">>, confirm |-> <<"n", "o">>],
    [choice |-> <<"u">>, confirm |-> <<"y", "e", "s">>],
    [choice |-> <<"o">>, confirm |-> <<"Y", "E", "S">>],
    [choice |-> <<"o">>, confirm |-> <<"n", "o">>],
    [choice |-> <<"c">>, confirm |-> <<"y", "e", "s">>] }

\* The blueprint asked for and the rule files of ~/.antigravity/rules: no
\* blueprint or one of the table without global rules, and a name the
\* table does not have with one global rule.
Surroundings ==
  { [blueprint |-> "", global_rules |-> <<>>],
    [blueprint |-> "performance", global_rules |-> <<>>],
    [blueprint |-> "unknown",
     global_rules |-> << [name |-> <<"s", "t", "y", "l", "e", ".", "m", "d">>, content |-> <<"B", "e", " ", "b", "r", "i", "e", "f", ".">>] >>] }

\* The arguments of generate_project and what it finds around it.  The
\* answers count only when safe_mode is None.
GenerateInputs ==
  {[fn |-> "generate_project", project_name |-> BaseDir, keywords |-> kw,
    brain_dump_path |-> bd, safe_mode |-> m.safe_mode, choice |-> m.choice,
    confirm |-> m.confirm, license_type |-> "mit", blueprint |-> s.blueprint,
    global_rules |-> s.global_rules] :
     kw \in KeywordLists,
     bd \in {NoneArg, StrArg(SrcA), StrArg(SrcMissing)},
     m \in {[safe_mode |-> Mode(b), choice |-> <<"c">>, confirm |-> <<"n", "o">>] :
              b \in BOOLEAN}
           \cup {[safe_mode |-> NoMode, choice |-> a.choice, confirm |-> a.confirm] :
                   a \in Answers},
     s \in Surroundings}

\* The document of the first source file: one section, filed under docs,
\* that names linux.
GenDoc == JoinLines(<< <<"#", " ", "R", "u", "n">>, <<"o", "n", " ", "l", "i", "n", "u", "x">> >>)

\* A project that its user has worked on: files of the user at paths the
\* generator knows, a folder marker that is not empty, an old log and a
\* git hook.
UserFiles ==
  (OldFile :> OldText) @@
  (PathJoin(PathJoin(PathJoin(BaseDir, AGENT_DIR), <<"r", "u", "l", "e", "s">>), RULE_ARCHITECTURE)
     :> <<"m", "y", " ", "a", "r", "c", "h", "i", "t", "e", "c", "t", "u", "r", "e">>) @@
  (PathJoin(BaseDir, <<"R", "E", "A", "D", "M", "E", ".", "m", "d">>) :> <<"m", "y", " ", "r", "e", "a", "d", "m", "e">>) @@
  (PathJoin(PathJoin(BaseDir, <<"s", "r", "c">>), <<".", "g", "i", "t", "k", "e", "e", "p">>) :> <<"k", "e", "e", "p">>) @@
  (PathJoin(BaseDir, <<"a", "n", "t", "i", "g", "r", "a", "v", "i", "t", "y", "_", "s", "e", "t", "u", "p", ".", "l", "o", "g">>) :> <<"o", "l", "d", " ", "l", "o", "g">>) @@
  (PathJoin(PathJoin(PathJoin(BaseDir, <<".", "g", "i", "t">>), <<"h", "o", "o", "k", "s">>), <<"p", "o", "s", "t", "-", "c", "o", "m", "m", "i", "t">>)
     :> <<"m", "y", " ", "h", "o", "o", "k">>)

UserDisk ==
  [files  |-> UserFiles,
   dirs   |-> UNION {MakeDirs(Dirname(p)) : p \in DOMAIN UserFiles},
   denied |-> {}]

\* The call generate_project(input.project_name, input.keywords, ...).
GenerateProject ==
  /\ input.fn = "generate_project"
  /\ Len(history) < MaxRuns
  /\ \E st \in {generate_project_setup(disk, sources, input)} :
       LET call == [op |-> "generate_project",
                    prompted |-> input.safe_mode.none /\ PathExists(disk, input.project_name),
                    cancelled |-> st.cancelled, ret |-> ~st.cancelled,
                    safe_mode |-> st.safe_mode, keywords |-> input.keywords,
                    blueprint_stack |-> st.blueprint_data.stack,
                    detected_stack |-> st.detected_stack,
                    final_stack |-> <<>>]
       IN  IF st.cancelled
             THEN disk' = disk /\ last' = call
             ELSE \E final_stack \in final_stacks(st.keywords, st.detected_stack) :
                    /\ disk' = generate_project_files(st, input, final_stack)
                    /\ last' = [call EXCEPT !.final_stack = final_stack]
  /\ history' = Append(history, input.project_name)
  /\ UNCHANGED <<sources, input, procs, presets>>

InitGenerate ==
  /\ disk \in {NoProjectDisk, UserDisk}
  /\ sources = SourcesWith(GenDoc)
  /\ input \in GenerateInputs
  /\ last = NoCall
  /\ history = <<>>
  /\ procs = <<>>
  /\ presets = <<>>

NextGenerate == GenerateProject

SpecGenerate == InitGenerate /\ [][NextGenerate]_vars

\* ---------------------------------------------------------------------
\* AntigravityEngine.sanitize_name
\* ---------------------------------------------------------------------

DefaultName == <<"a", "n", "t", "i", "g", "r", "a", "v", "i", "t", "y", "-", "p", "r", "o", "j", "e", "c", "t">>

\* re.sub(r"\s+", "_", s): every run of whitespace becomes one underscore.
SpaceRunsToUnderscore(s) ==
  AtPositions(SubSeq([i \in 1..Len(s) |-> IF IsSpace(s[i]) THEN "_" ELSE s[i]],
                     1, Len(s)),
              {i \in 1..Len(s) : ~(IsSpace(s[i]) /\ i > 1 /\ IsSpace(s[i - 1]))})

\* re.sub(r"[^a-zA-Z0-9_\-]", "", s)
DropUnsafe(s) == AtPositions(s, {i \in 1..Len(s) : IsAlnum(s[i]) \/ s[i] \in {"_", "-"}})

\* sanitize_name that only replaces the whitespace and keeps every other
\* character.
sanitize_name_unfiltered(name) ==
  IF name.none \/ name.value = <<>> THEN DefaultName
  ELSE LET clean == SpaceRunsToUnderscore(Strip(name.value))
       IN  IF Contains(clean, <<".", ".">>) \/ IsPrefix(<<"/">>, clean) \/ IsPrefix(<<"\\">>, clean)
             THEN DefaultName
           ELSE IF clean = <<>> THEN DefaultName
           ELSE clean

\* sanitize_name(name); name is [none, value].
sanitize_name(name) ==
  IF name.none \/ name.value = <<>> THEN DefaultName
  ELSE LET clean == DropUnsafe(SpaceRunsToUnderscore(Strip(name.value)))
       IN  IF Contains(clean, <<".", ".">>) \/ IsPrefix(<<"/">>, clean) \/ IsPrefix(<<"\\">>, clean)
             THEN DefaultName
           ELSE IF clean = <<>> THEN DefaultName
           ELSE clean

\* The characters of the names tried: letters of both cases, a digit, the
\* two marks a name may keep, a dot, both separators, whitespace, a mark a
\* name may not keep and a letter outside ASCII.
NameAlphabet == {"a", "Z", "7", "_", "-", ".", "/", "\\", " ", "\t", "!", "U+00E9"}

NoName == [none |-> TRUE, value |-> <<>>]

Names ==
  {NoName} \cup {[none |-> FALSE, value |-> v] :
                   v \in UNION {[1..n -> NameAlphabet] : n \in 0..MaxName}}

\* The call sanitize_name(input.name), and after it the calls that
\* sanitize the last result again.
SanitizeName ==
  /\ input.fn = "sanitize_name"
  /\ Len(history) < MaxRuns
  /\ LET name == IF last = NoCall THEN input.name
                 ELSE [none |-> FALSE, value |-> last.ret]
     IN  /\ last' = [op |-> "sanitize_name", name |-> name, ret |-> sanitize_name(name)]
         /\ history' = Append(history, name.value)
  /\ UNCHANGED <<disk, sources, input, procs, presets>>

InitSanitize ==
  /\ disk = InitDisk
  /\ sources = SourcesWith(<<>>)
  /\ input \in [fn : {"sanitize_name"}, name : Names]
  /\ last = NoCall
  /\ history = <<>>
  /\ procs = <<>>
  /\ presets = <<>>

NextSanitize == SanitizeName

SpecSanitize == InitSanitize /\ [][NextSanitize]_vars

\* ---------------------------------------------------------------------
\* Two runs of process_brain_dump side by side, against one base directory
\* ---------------------------------------------------------------------

\* The runs.
Pids == {1, 2}

\* A run that has not started.
NotStarted ==
  [pc |-> "start", filepath |-> NoneArg, full_text |-> <<>>, blocks |-> <<>>,
   next |-> 1, ret |-> {}]

\* What the loop of process_brain_dump appends for a text, in its order:
\* one entry for every section with a body.
SectionBlocks(full_text, base_dir) ==
  Distribute(ReSplitHeadings(full_text), 2, base_dir,
             [disk |-> NoProjectDisk, appends |-> <<>>]).appends

\* append_file that creates its file and refuses the one that is there
\* (open(path, "x")).
append_block_exclusive(d, block) ==
  IF PathExists(d, block.dest) THEN d
  ELSE append_file(d, block.dest, Formatted(block.header, block.content))

\* append_file(dest, formatted) for one entry of the loop.
append_block(d, block) ==
  append_file(d, block.dest, Formatted(block.header, block.content))

\* Run p validates its path and reads its source; a path that is refused
\* or a source that cannot be read ends the run with [].
Start(p) ==
  /\ procs[p].pc = "start"
  /\ \E filepath \in {StrArg(SrcA), StrArg(SrcB), StrArg(SrcMissing)} :
       LET src == ReadSource(sources, filepath)
       IN  procs' = [procs EXCEPT ![p] =
                       IF validate_file_path(sources, filepath) /\ src.ok
                         THEN [@ EXCEPT !.pc = "archive_check",
                                        !.filepath = filepath,
                                        !.full_text = src.text]
                         ELSE [@ EXCEPT !.pc = "done", !.filepath = filepath]]
  /\ UNCHANGED <<disk, sources, input, last, history, presets>>

\* write_file(raw_dest, full_text, exist_ok=True), its test: the archive
\* that exists is skipped.
ArchiveCheck(p) ==
  /\ procs[p].pc = "archive_check"
  /\ procs' = [procs EXCEPT ![p].pc =
                 IF PathExists(disk, raw_dest(BaseDir)) THEN "tech_check"
                 ELSE "archive_write"]
  /\ UNCHANGED <<disk, sources, input, last, history, presets>>

\* write_file(raw_dest, ...), its makedirs and open(path, "w") after the
\* test found no archive.
ArchiveWrite(p) ==
  /\ procs[p].pc = "archive_write"
  /\ disk' = write_file(disk, raw_dest(BaseDir), procs[p].full_text, FALSE)
  /\ procs' = [procs EXCEPT ![p].pc = "tech_check"]
  /\ UNCHANGED <<sources, input, last, history, presets>>

\* detect_tech_stack, then write_file(tech_stack_path, ..., exist_ok=True),
\* its test.
TechCheck(p) ==
  /\ procs[p].pc = "tech_check"
  /\ procs' = [procs EXCEPT ![p] =
                 [@ EXCEPT !.ret = detect_tech_stack(procs[p].full_text),
                           !.pc = IF PathExists(disk, tech_stack_path(BaseDir))
                                    THEN "append" ELSE "tech_write",
                           !.blocks = IF PathExists(disk, tech_stack_path(BaseDir))
                                        THEN SectionBlocks(procs[p].full_text, BaseDir)
                                        ELSE <<>>]]
  /\ UNCHANGED <<disk, sources, input, last, history, presets>>

\* write_file(tech_stack_path, ...), its makedirs and open(path, "w"); the
\* text is split after it.
TechWrite(p) ==
  /\ procs[p].pc = "tech_write"
  /\ disk' = write_file(disk, tech_stack_path(BaseDir),
                        build_tech_deep_dive(procs[p].ret, procs[p].full_text), FALSE)
  /\ procs' = [procs EXCEPT ![p] =
                 [@ EXCEPT !.pc = "append",
                           !.blocks = SectionBlocks(procs[p].full_text, BaseDir)]]
  /\ UNCHANGED <<sources, input, last, history, presets>>

\* One pass of the loop: append_file for the next section with a body.
AppendBlock(p) ==
  /\ procs[p].pc = "append"
  /\ procs[p].next <= Len(procs[p].blocks)
  /\ disk' = append_block(disk, procs[p].blocks[procs[p].next])
  /\ procs' = [procs EXCEPT ![p].next = @ + 1]
  /\ UNCHANGED <<sources, input, last, history, presets>>

\* The loop is over: return detected_keywords.
Return(p) ==
  /\ procs[p].pc = "append"
  /\ procs[p].next > Len(procs[p].blocks)
  /\ procs' = [procs EXCEPT ![p].pc = "done"]
  /\ UNCHANGED <<disk, sources, input, last, history, presets>>

\* The documents of the first source: two sections for one file, one
\* section for the file that exists already, a heading without body before
\* a section.
ConcurrentDocs ==
  { JoinLines(<< <<"#", " ", "R", "u", "n">>, <<"f", "i", "r", "s", "t">>, <<"#", " ", "R", "u", "n">>, <<"s", "e", "c", "o", "n", "d">> >>),
    JoinLines(<< <<"#", " ", "R", "u", "n">>, <<"m", "u", "s", "t", " ", "l", "i", "n", "t">> >>),
    JoinLines(<< <<"#", " ", "R", "u", "n">>, <<>>, <<"#", " ", "G", "o">>, <<"n", "p", "m", " ", "c", "l", "i">> >>) }

InitConcurrent ==
  /\ disk = InitDisk
  /\ \E doc \in ConcurrentDocs : sources = SourcesWith(doc)
  /\ input = NoInput
  /\ last = NoCall
  /\ history = <<>>
  /\ procs = [p \in Pids |-> NotStarted]
  /\ presets = <<>>

NextConcurrent ==
  \E p \in Pids :
     \/ Start(p)
     \/ ArchiveCheck(p)
     \/ ArchiveWrite(p)
     \/ TechCheck(p)
     \/ TechWrite(p)
     \/ AppendBlock(p)
     \/ Return(p)

SpecConcurrent == InitConcurrent /\ [][NextConcurrent]_vars

\* ---------------------------------------------------------------------
\* main: the command line, the presets and the mode that runs.
\* ---------------------------------------------------------------------

\* The values an option can have: None, a string or a boolean.
PyNone == [t |-> "none", v |-> <<>>]

PyStr(s) == [t |-> "str", v |-> s]

PyBool(b) == [t |-> "bool", v |-> IF b THEN <<"T", "r", "u", "e">> ELSE <<"F", "a", "l", "s", "e">>]

\* The truth value Python gives to an option's value.
Truthy(x) == (x.t = "str" /\ x.v # <<>>) \/ x = PyBool(TRUE)

\* build_cli_parser: the destinations of the options in the order they
\* are added, the store_true ones, and the default of each.
Dests ==
  <<"name", "stack", "brain_dump", "safe", "dry_run", "templates", "doctor",
    "fix", "list_keywords", "license", "blueprint", "save_preset", "preset",
    "list_presets", "list_blueprints">>

DestSet == Range(Dests)

StoreTrue == {"safe", "dry_run", "fix", "list_keywords", "list_presets", "list_blueprints"}

build_cli_parser ==
  [dest \in DestSet |->
     IF dest \in StoreTrue THEN PyBool(FALSE)
     ELSE IF dest = "license" THEN PyStr(<<"m", "i", "t">>)
     ELSE PyNone]

\* One option of a command line, and a store_true option.
Opt(dest, value) == [dest |-> dest, value |-> PyStr(value)]

Flag(dest) == [dest |-> dest, value |-> PyBool(TRUE)]

\* parser.set_defaults(**defaults): the loaded values replace the
\* defaults of the parser.
set_defaults(defaults, loaded) ==
  [dest \in DestSet |-> IF dest \in DOMAIN loaded THEN loaded[dest] ELSE defaults[dest]]

\* parse_args that lets the defaults, a loaded preset among them, win over
\* the command line.
parse_args_defaults_first(argv, defaults) ==
  [dest \in DestSet |->
     LET given == {i \in 1..Len(argv) : argv[i].dest = dest}
     IN  IF defaults[dest] # build_cli_parser[dest] THEN defaults[dest]
         ELSE IF given = {} THEN defaults[dest]
         ELSE argv[CHOOSE i \in given : \A j \in given : j <= i].value]

\* parser.parse_args(argv): an option given on the command line has the
\* value given last, any other option has its default.
parse_args(argv, defaults) ==
  [dest \in DestSet |->
     LET given == {i \in 1..Len(argv) : argv[i].dest = dest}
     IN  IF given = {} THEN defaults[dest]
         ELSE argv[CHOOSE i \in given : \A j \in given : j <= i].value]

\* json.dump of one value and json.loads of one token: a string is written
\* between double quotes, a boolean as true or false.
json_dump_value(x) ==
  IF x.t = "str" THEN <<"\"">> \o x.v \o <<"\"">>
  ELSE IF x = PyBool(TRUE) THEN <<"t", "r", "u", "e">>
  ELSE IF x = PyBool(FALSE) THEN <<"f", "a", "l", "s", "e">>
  ELSE <<"n", "u", "l", "l">>

json_load_value(token) ==
  IF token = <<"t", "r", "u", "e">> THEN PyBool(TRUE)
  ELSE IF token = <<"f", "a", "l", "s", "e">> THEN PyBool(FALSE)
  ELSE IF token = <<"n", "u", "l", "l">> THEN PyNone
  ELSE PyStr(SubSeq(token, 2, Len(token) - 1))

\* json.dump of a dict, as the members written, and json.load of them.
json_dump(data) ==
  SubSeq([i \in 1..Len(data) |->
            [key |-> data[i].key, token |-> json_dump_value(data[i].value)]],
         1, Len(data))

json_load(members) ==
  [k \in {members[i].key : i \in 1..Len(members)} |->
     json_load_value(members[CHOOSE i \in 1..Len(members) :
                               /\ members[i].key = k
                               /\ \A j \in 1..Len(members) :
                                    members[j].key = k => j <= i].token)]

\* save_preset(name, args): the file <name>.json of the presets directory
\* is written anew.
save_preset(ps, name, data) == Put(ps, name, json_dump(data))

\* load_preset(name): None when there is no such file.
load_preset(ps, name) ==
  IF name \in DOMAIN ps
    THEN [none |-> FALSE, data |-> json_load(ps[name])]
    ELSE [none |-> TRUE, data |-> <<>>]

\* The destinations main keeps out of a preset, and the dict main hands to
\* save_preset: vars(args) without the None values and without those
\* destinations.
OperationalFlags ==
  {"save_preset", "preset", "dry_run", "list_keywords", "list_presets", "doctor", "fix"}

RECURSIVE SelectSeq2(_, _, _)
SelectSeq2(s, keep, i) ==
  IF i > Len(s) THEN <<>>
  ELSE (IF keep[i] THEN <<s[i]>> ELSE <<>>) \o SelectSeq2(s, keep, i + 1)

preset_data(args) ==
  LET keep == [i \in 1..Len(Dests) |->
                 /\ args[Dests[i]] # PyNone
                 /\ Dests[i] \notin OperationalFlags]
      all == [i \in 1..Len(Dests) |-> [key |-> Dests[i], value |-> args[Dests[i]]]]
  IN  SelectSeq2(all, keep, 1)

\* parse_keywords: the string is split at runs of commas and whitespace,
\* and the pieces that are not empty are lowercased.
IsKeywordSep(c) == c = "," \/ IsSpace(c)

RECURSIVE SplitKeywords(_, _, _)
SplitKeywords(s, i, word) ==
  IF i > Len(s) THEN (IF word = <<>> THEN <<>> ELSE <<word>>)
  ELSE IF IsKeywordSep(s[i])
    THEN (IF word = <<>> THEN <<>> ELSE <<word>>) \o SplitKeywords(s, i + 1, <<>>)
  ELSE SplitKeywords(s, i + 1, Append(word, s[i]))

parse_keywords(input_str) ==
  IF input_str = <<>> THEN <<>>
  ELSE LET raw == SplitKeywords(input_str, 1, <<>>)
       IN  SubSeq([i \in 1..Len(raw) |-> Strip(Lower(raw[i]))], 1, Len(raw))

\* The directory tempfile.gettempdir() names: an absolute path outside the
\* working directory, which is where the project directories are made.
TempDir == <<"/", "t", "m", "p">>

\* setup_logging(): the log file of the temporary directory is opened
\* with mode "w".
setup_logging_default(d) ==
  [d EXCEPT !.files = Put(d.files, PathJoin(TempDir, <<"a", "n", "t", "i", "g", "r", "a", "v", "i", "t", "y", "_", "s", "e", "t", "u", "p", ".", "l", "o", "g">>), <<>>)]

OsKeywords == { <<"m", "a", "c", "o", "s">>, <<"w", "i", "n", "d", "o", "w", "s">>, <<"l", "i", "n", "u", "x">> }

\* The keywords with linux added when they name no operating system.
WithDefaultOs(keywords) ==
  IF \E i \in 1..Len(keywords) : keywords[i] \in OsKeywords
    THEN keywords
    ELSE Append(keywords, <<"l", "i", "n", "u", "x">>)

\* The keys of the license and blueprint tables.
TableKey(x) ==
  IF x.t # "str" THEN ""
  ELSE IF x.v = <<"m", "i", "t">> THEN "mit"
  ELSE IF x.v = <<"a", "p", "a", "c", "h", "e">> THEN "apache"
  ELSE IF x.v = <<"g", "p", "l">> THEN "gpl"
  ELSE IF x.v = <<"p", "e", "r", "f", "o", "r", "m", "a", "n", "c", "e">> THEN "performance"
  ELSE "unknown"

NameArg(x) == IF x.t = "str" THEN [none |-> FALSE, value |-> x.v] ELSE NoName

PathArg(x) == IF x.t = "str" THEN StrArg(x.v) ELSE NoneArg

\* run_cli_mode that goes on to generate_project after the dry-run report.
run_cli_mode_no_return(d, args) ==
  LET project_name == sanitize_name(NameArg(args.name))
      keywords == IF Truthy(args.stack) THEN parse_keywords(args.stack.v) ELSE <<>>
  IN  [disk |-> setup_logging_default(d),
       generate |-> TRUE,
       call |-> [fn |-> "generate_project", project_name |-> project_name,
                 keywords |-> WithDefaultOs(keywords),
                 brain_dump_path |-> PathArg(args.brain_dump),
                 safe_mode |-> Mode(args.safe = PyBool(TRUE)),
                 choice |-> <<>>, confirm |-> <<>>,
                 license_type |-> TableKey(args.license),
                 blueprint |-> TableKey(args.blueprint),
                 global_rules |-> <<>>]]

\* run_cli_mode(args): the log of the temporary directory is opened, the
\* name is sanitized and the keywords are parsed; with dry_run the report
\* is printed and the call returns, otherwise generate_project is called.
run_cli_mode(d, args) ==
  LET project_name == sanitize_name(NameArg(args.name))
      keywords == IF Truthy(args.stack) THEN parse_keywords(args.stack.v) ELSE <<>>
  IN  [disk |-> setup_logging_default(d),
       generate |-> ~Truthy(args.dry_run),
       call |-> [fn |-> "generate_project", project_name |-> project_name,
                 keywords |-> WithDefaultOs(keywords),
                 brain_dump_path |-> PathArg(args.brain_dump),
                 safe_mode |-> Mode(args.safe = PyBool(TRUE)),
                 choice |-> <<>>, confirm |-> <<>>,
                 license_type |-> TableKey(args.license),
                 blueprint |-> TableKey(args.blueprint),
                 global_rules |-> <<>>]]

\* str.strip("'\"") and what the user types at the prompts.
IsQuote(c) == c = "'" \/ c = "\""

StripQuotes(s) ==
  LET keep == {i \in 1..Len(s) : ~IsQuote(s[i])}
  IN  IF keep = {} THEN <<>>
      ELSE SubSeq(s, CHOOSE i \in keep : \A j \in keep : i <= j,
                     CHOOSE i \in keep : \A j \in keep : j <= i)

\* run_interactive_mode(): the answers typed are the path of a brain
\* dump, the project name, the keywords, the license and, when
\* generate_project asks, the mode and its confirmation.  Without a name
\* nothing is generated.
run_interactive_mode(d, stdin) ==
  LET path == StripQuotes(Strip(stdin.path))
      raw_name == stdin.name
      project_name == sanitize_name([none |-> FALSE, value |-> raw_name])
      manual_keywords == IF path = <<>> THEN WithDefaultOs(parse_keywords(stdin.keywords))
                         ELSE <<>>
      license_choice == IF Lower(Strip(stdin.license)) = <<>> THEN PyStr(<<"m", "i", "t">>)
                        ELSE PyStr(Lower(Strip(stdin.license)))
  IN  [disk |-> setup_logging_default(d),
       generate |-> ~(project_name = <<>> \/ (project_name = DefaultName /\ raw_name = <<>>)),
       call |-> [fn |-> "generate_project", project_name |-> project_name,
                 keywords |-> manual_keywords,
                 brain_dump_path |-> IF path = <<>> THEN NoneArg ELSE StrArg(path),
                 safe_mode |-> NoMode,
                 choice |-> stdin.choice, confirm |-> stdin.confirm,
                 license_type |-> TableKey(license_choice),
                 blueprint |-> "",
                 global_rules |-> <<>>]]

\* What main has done when no mode that generates has run.
NoArgs == [dest \in DestSet |-> PyNone]

Idle(d) == [disk |-> d, generate |-> FALSE, call |-> NoInput]

\* main that saves the preset as soon as the arguments are parsed, before
\* the listing modes and the doctor are looked at.
main_saving_first(d, ps, argv, stdin) ==
  LET pre_args == parse_args(argv, build_cli_parser)
      loaded == IF Truthy(pre_args.preset) THEN load_preset(ps, pre_args.preset.v)
                ELSE [none |-> TRUE, data |-> <<>>]
      defaults == IF ~loaded.none /\ DOMAIN loaded.data # {}
                    THEN set_defaults(build_cli_parser, loaded.data)
                    ELSE build_cli_parser
      args == parse_args(argv, defaults)
      saving == Truthy(args.save_preset)
      saved == IF saving THEN save_preset(ps, args.save_preset.v, preset_data(args)) ELSE ps
      done(mode) == [mode |-> mode, args |-> args, presets |-> saved,
                     saved |-> saving, run |-> Idle(d)]
  IN  IF Truthy(pre_args.list_presets)
        THEN [mode |-> "list_presets", args |-> NoArgs, presets |-> ps,
              saved |-> FALSE, run |-> Idle(d)]
      ELSE IF Truthy(args.list_keywords) THEN done("list_keywords")
      ELSE IF Truthy(args.list_blueprints) THEN done("list_blueprints")
      ELSE IF Truthy(args.doctor) THEN done("doctor")
      ELSE IF Truthy(args.name)
        THEN [done("cli") EXCEPT !.run = run_cli_mode(d, args)]
      ELSE [done("interactive") EXCEPT !.run = run_interactive_mode(d, stdin)]

\* main(argv): the mode that runs, the arguments it runs with, the presets
\* after it, and what the mode does before generate_project.  The first
\* parser sees --preset and --list-presets only; the values of a loaded
\* preset become defaults of the full parser; the modes are tried in their
\* order, and a preset is saved only when none of the listing modes and
\* not the doctor has run.
main(d, ps, argv, stdin) ==
  LET pre_args == parse_args(argv, build_cli_parser)
      loaded == IF Truthy(pre_args.preset) THEN load_preset(ps, pre_args.preset.v)
                ELSE [none |-> TRUE, data |-> <<>>]
      defaults == IF ~loaded.none /\ DOMAIN loaded.data # {}
                    THEN set_defaults(build_cli_parser, loaded.data)
                    ELSE build_cli_parser
      args == parse_args(argv, defaults)
      saving == Truthy(args.save_preset)
      saved == IF saving THEN save_preset(ps, args.save_preset.v, preset_data(args)) ELSE ps
      done(mode) == [mode |-> mode, args |-> args, presets |-> ps,
                     saved |-> FALSE, run |-> Idle(d)]
  IN  IF Truthy(pre_args.list_presets)
        THEN [mode |-> "list_presets", args |-> NoArgs, presets |-> ps,
              saved |-> FALSE, run |-> Idle(d)]
      ELSE IF Truthy(args.list_keywords) THEN done("list_keywords")
      ELSE IF Truthy(args.list_blueprints) THEN done("list_blueprints")
      ELSE IF Truthy(args.doctor) THEN done("doctor")
      ELSE IF Truthy(args.name)
        THEN [done("cli") EXCEPT !.presets = saved, !.saved = saving,
                                 !.run = run_cli_mode(d, args)]
      ELSE [done("interactive") EXCEPT !.presets = saved, !.saved = saving,
                                       !.run = run_interactive_mode(d, stdin)]

\* The command lines tried.  P is the name of a preset.
PresetP == <<"P">>

CommandLines ==
  { <<>>,
    <<Flag("list_presets"), Flag("list_keywords"), Opt("name", BaseDir),
      Opt("save_preset", PresetP)>>,
    <<Opt("save_preset", PresetP), Flag("list_keywords"), Flag("list_blueprints"),
      Opt("doctor", BaseDir)>>,
    <<Flag("list_blueprints"), Opt("doctor", BaseDir), Opt("name", BaseDir),
      Opt("save_preset", PresetP)>>,
    <<Opt("doctor", BaseDir), Flag("fix"), Opt("name", BaseDir),
      Opt("save_preset", PresetP)>>,
    <<Opt("doctor", BaseDir)>>,
    <<Opt("name", BaseDir), Flag("dry_run")>>,
    <<Opt("name", BaseDir), Opt("stack", <<"P", "y", "t", "h", "o", "n", ",", " ">>), Opt("license", <<"g", "p", "l">>),
      Opt("save_preset", PresetP)>>,
    <<Opt("name", BaseDir), Flag("safe"), Flag("dry_run"), Opt("save_preset", PresetP)>>,
    <<Opt("preset", PresetP)>>,
    <<Opt("preset", PresetP), Opt("stack", <<"r", "e", "a", "c", "t">>), Flag("dry_run")>>,
    <<Opt("preset", PresetP), Opt("license", <<"m", "i", "t">>), Flag("safe")>>,
    <<Opt("save_preset", PresetP)>> }

\* What the user types in interactive mode: nothing at all, or a name with
\* keywords and a license, and the answers to the question about an
\* existing directory.
Stdins ==
  { [path |-> <<>>, name |-> <<>>, keywords |-> <<>>, license |-> <<>>,
     choice |-> <<>>, confirm |-> <<>>],
    [path |-> <<>>, name |-> BaseDir, keywords |-> <<"p", "y", "t", "h", "o", "n">>, license |-> <<" ", "G", "P", "L">>,
     choice |-> <<"u">>, confirm |-> <<>>] }

\* One run of main.  history keeps, for each run, the preset it saved and
\* the arguments it ran with.
Main(argv, stdin) ==
  /\ Len(history) < MaxRuns
  /\ \E m \in {main(disk, presets, argv, stdin)} :
       LET call == [op |-> "main", argv |-> argv, mode |-> m.mode, args |-> m.args,
                    saved |-> m.saved, generate |-> m.run.generate,
                    call |-> m.run.call, doctor |-> m.mode = "doctor",
                    cancelled |-> FALSE, ret |-> TRUE, final_stack |-> <<>>]
       IN  /\ presets' = m.presets
           /\ history' = Append(history, [saved |-> m.saved,
                                          save_preset |-> m.args.save_preset.v,
                                          args |-> m.args])
           /\ IF m.mode = "doctor"
                THEN \E r \in {doctor_project(disk, m.args.doctor.v,
                                              m.args.fix = PyBool(TRUE))} :
                       /\ disk' = r.disk
                       /\ last' = [call EXCEPT !.ret = r.ret]
              ELSE IF m.run.generate
                THEN \E st \in {generate_project_setup(m.run.disk, sources, m.run.call)} :
                       IF st.cancelled
                         THEN /\ disk' = m.run.disk
                              /\ last' = [call EXCEPT !.cancelled = TRUE, !.ret = FALSE]
                         ELSE \E final_stack \in final_stacks(st.keywords,
                                                              st.detected_stack) :
                                /\ disk' = generate_project_files(st, m.run.call,
                                                                  final_stack)
                                /\ last' = [call EXCEPT !.final_stack = final_stack]
              ELSE /\ disk' = m.run.disk
                   /\ last' = call
  /\ UNCHANGED <<sources, input, procs>>

InitMain ==
  /\ disk = NoProjectDisk
  /\ sources = SourcesWith(<<>>)
  /\ input = NoInput
  /\ last = NoCall
  /\ history = <<>>
  /\ procs = <<>>
  /\ presets = <<>>

NextMain == \E argv \in CommandLines, stdin \in Stdins : Main(argv, stdin)

SpecMain == InitMain /\ [][NextMain]_vars

\* ------------------------------------------------------------------------
\* Properties of the detector, the splitter, the slug and the router
\* ------------------------------------------------------------------------

\* The direct dictionary: the keys of the gitignore and package maps.
Dictionary == Range(GITIGNORE_MAP_keys) \cup Range(NIX_PACKAGE_MAP_keys)

\* The canonical names of the alias table.
AliasPrimaries == {TECH_ALIASES[r].primary : r \in 1..Len(TECH_ALIASES)}

\* The aliases of the canonical name k.
AliasesOf(k) ==
  UNION {Range(TECH_ALIASES[r].aliases) :
           r \in {q \in 1..Len(TECH_ALIASES) : TECH_ALIASES[q].primary = k}}

\* Every alias of the table.
AllAliases == UNION {AliasesOf(k) : k \in AliasPrimaries}

\* C11: detect_tech_stack returns a set of canonical keywords that holds k
\* exactly when k is a key of the dictionary occurring in the lowercased
\* text as a whole word, or an alias of k does; an alias that matched is in
\* the result only when it is such a k itself; nothing matched, nothing
\* returned.
C11_DetectedExactly ==
  last.op = "detect_tech_stack" =>
    LET t == Lower(last.text)
        Hit(k) == \/ k \in Dictionary /\ OccursIn(t, k)
                  \/ \E a \in AliasesOf(k) : OccursIn(t, a)
    IN  /\ last.ret \subseteq Dictionary \cup AliasPrimaries
        /\ \A k \in Dictionary \cup AliasPrimaries \cup AllAliases :
             k \in last.ret <=> Hit(k)
        /\ (\A k \in Dictionary \cup AliasPrimaries : ~Hit(k)) => last.ret = {}

\* A text with npm, an alias only, and react, an alias that is a key too:
\* node and react were returned, npm was not.
C11_Witness ==
  /\ last.op = "detect_tech_stack"
  /\ last.text = <<"n", "p", "m", " ", "r", "e", "a", "c", "t">>
  /\ last.ret = { <<"n", "o", "d", "e">>, <<"r", "e", "a", "c", "t">> }
  /\ <<"n", "p", "m">> \in AllAliases
  /\ <<"n", "p", "m">> \notin last.ret

\* A heading line begins at position i of text: one or more # at the
\* start of a line, then a whitespace character of that same line (the
\* text after it may be empty).
HeadingLineAt(text, i) ==
  /\ i = 1 \/ text[i - 1] = "\n"
  /\ text[i] = "#"
  /\ \E j \in i..(Len(text) - 1) :
       /\ \A x \in i..j : text[x] = "#"
       /\ IsSpace(text[j + 1])
       /\ text[j + 1] # "\n"

\* The number of heading lines of a text.
HeadingLineCount(text) ==
  Cardinality({i \in 1..Len(text) : HeadingLineAt(text, i)})

\* C12: a run appends at most as many blocks as the document has heading
\* lines, and fewer when the body of some heading is empty.
C12_BlocksAtMostHeadingLines ==
  ReadRun(last) =>
    LET ss == SectionsOf(last.text)
    IN  /\ Len(last.appends) <= HeadingLineCount(last.text)
        /\ (\E k \in 1..Len(ss) : ss[k].body = <<>>) =>
             Len(last.appends) < HeadingLineCount(last.text)

\* The positions where a heading can begin: one or more # at the start of
\* a line, followed by a whitespace character.
HeadingStarts(text) ==
  {i \in 1..Len(text) :
     /\ i = 1 \/ text[i - 1] = "\n"
     /\ \E j \in i..(Len(text) - 1) :
          /\ \A x \in i..j : text[x] = "#"
          /\ IsSpace(text[j + 1])}

\* C13: the split of the document into a preamble followed by heading and
\* content chunks in turn loses nothing: the preamble is the text before
\* the first heading, and the chunks after it, joined in order, are the
\* text from the first heading to the end; every appended section comes
\* from a heading chunk and the content chunk after it, so the preamble is
\* in no section.
C13_SplitLosesOnlyPreamble ==
  ReadRun(last) =>
    LET text == last.text
        ch   == ReSplitHeadings(text)
        hs   == HeadingStarts(text)
    IN  /\ Len(ch) % 2 = 1
        /\ IF hs = {}
             THEN ch = <<text>> /\ last.appends = <<>>
             ELSE LET f == CHOOSE i \in hs : \A j \in hs : i <= j
                  IN  /\ ch[1] = SubSeq(text, 1, f - 1)
                      /\ Concat(SubSeq(ch, 2, Len(ch))) =
                           SubSeq(text, f, Len(text))
        /\ \A k \in 1..((Len(ch) - 1) \div 2) : ch[2 * k][1] = "#"
        /\ \A a \in 1..Len(last.appends) :
             \E k \in 1..((Len(ch) - 1) \div 2) :
               /\ last.appends[a].header = Strip(ch[2 * k])
               /\ last.appends[a].content = Strip(ch[2 * k + 1])

\* A run over a document with text before its first heading and a section
\* with a body: the section was appended, the preamble is its own chunk.
C13_Witness ==
  /\ ReadRun(last)
  /\ Strip(ReSplitHeadings(last.text)[1]) # <<>>
  /\ Len(last.appends) = 1
  /\ ~Contains(disk.files[last.appends[1].dest],
               Strip(ReSplitHeadings(last.text)[1]))

\* The reference derivation of a slug: the runs of ASCII letters and
\* digits of the lowercased title, joined by one underscore each, cut at 50
\* characters, and untitled when there is no such run.  The leading #
\* markers are no letters or digits and so leave no trace.
ReferenceSlug(title) ==
  LET s      == Lower(title)
      Piece(i) == IF ~IsAlnum(s[i]) THEN <<>>
                  ELSE IF i > 1 /\ ~IsAlnum(s[i - 1])
                          /\ \E j \in 1..(i - 1) : IsAlnum(s[j])
                         THEN <<"_", s[i]>>
                  ELSE <<s[i]>>
      joined == Concat([i \in 1..Len(s) |-> Piece(i)])
      cut    == SubSeq(joined, 1, IF Len(joined) < 50 THEN Len(joined) ELSE 50)
  IN  IF cut = <<>> THEN <<"u", "n", "t", "i", "t", "l", "e", "d">> ELSE cut

\* The characters a slug is made of.
SlugChars == LowerSet \cup Digits \cup {"_"}

\* C14 as stated: slugify_title gives the reference slug, which is not
\* empty, at most 50 characters long and made of a-z, 0-9 and _ only, and
\* it gives untitled when the header has no ASCII letter or digit.
C14_SlugOfHeader ==
  last.op = "slugify_title" =>
    /\ last.ret = ReferenceSlug(last.title)
    /\ last.ret # <<>>
    /\ Len(last.ret) <= 50
    /\ Range(last.ret) \subseteq SlugChars
    /\ (\A i \in 1..Len(last.title) : ~IsAlnum(last.title[i])) =>
         last.ret = <<"u", "n", "t", "i", "t", "l", "e", "d">>

\* C14: slugify_title gives the reference slug, which is not empty, at most
\* 50 characters long and made of a-z, 0-9 and _ only, and it gives untitled
\* when the lowercased header has no ASCII letter or digit; a character
\* outside ASCII whose lowercase form is an ASCII letter counts as that
\* letter.
C14_SlugOfLoweredHeader ==
  last.op = "slugify_title" =>
    /\ last.ret = ReferenceSlug(last.title)
    /\ last.ret # <<>>
    /\ Len(last.ret) <= 50
    /\ Range(last.ret) \subseteq SlugChars
    /\ (\A i \in 1..Len(last.title) : ~IsAlnum(LowerChar(last.title[i]))) =>
         last.ret = <<"u", "n", "t", "i", "t", "l", "e", "d">>

\* A header of more than 50 characters that holds the Kelvin sign: the
\* slug has 50 characters and the letter k in it.
C14_Witness ==
  /\ last.op = "slugify_title"
  /\ Len(last.title) > 50
  /\ \E i \in 1..Len(last.title) : last.title[i] = KelvinSign
  /\ Len(last.ret) = 50
  /\ \E i \in 1..Len(last.ret) : last.ret[i] = "k"
     /\ (i = 1 \/ last.ret[i - 1] = "_") /\ (i = 50 \/ last.ret[i + 1] = "_")

\* The path each of the four categories is given, spelled out.
TemplatePath(category, slug) ==
  CASE category = "rules" ->
         BaseDir \o <<"/", ".", "a", "g", "e", "n", "t", "/", "r", "u", "l", "e", "s", "/", "i", "m", "p", "o", "r", "t", "e", "d", "_">> \o slug \o <<".", "m", "d">>
    [] category = "workflows" ->
         BaseDir \o <<"/", ".", "a", "g", "e", "n", "t", "/", "w", "o", "r", "k", "f", "l", "o", "w", "s", "/", "i", "m", "p", "o", "r", "t", "e", "d", "_">> \o slug \o <<".", "m", "d">>
    [] category = "skills" ->
         BaseDir \o <<"/", ".", "a", "g", "e", "n", "t", "/", "s", "k", "i", "l", "l", "s", "/", "i", "m", "p", "o", "r", "t", "e", "d", "_">> \o slug \o <<"/", "S", "K", "I", "L", "L", ".", "m", "d">>
    [] OTHER ->
         BaseDir \o <<"/", "d", "o", "c", "s", "/", "i", "m", "p", "o", "r", "t", "e", "d", "/">> \o slug \o <<".", "m", "d">>

\* C15: get_destination_path gives rules, workflows, skills and docs the
\* path of their template, gives any other category the docs path, and
\* gives no other pair of one of the four categories and a slug the same
\* path.
C15_DestinationTemplates ==
  last.op = "get_destination_path" =>
    /\ last.ret = TemplatePath(last.category, last.safe_title)
    /\ last.category \notin {"rules", "workflows", "skills", "docs"} =>
         last.ret = TemplatePath("docs", last.safe_title)
    /\ last.category \in {"rules", "workflows", "skills", "docs"} =>
         \A c \in {"rules", "workflows", "skills", "docs"}, s \in DestSlugs :
           get_destination_path(BaseDir, c, s) = last.ret =>
             (c = last.category /\ s = last.safe_title)

\* A skill got a folder of its own with SKILL.md in it.
C15_Witness ==
  /\ last.op = "get_destination_path"
  /\ last.category = "skills"
  /\ last.safe_title = <<"r", "u", "n">>
  /\ last.ret = <<"p", "r", "o", "j", "/", ".", "a", "g", "e", "n", "t", "/", "s", "k", "i", "l", "l", "s", "/", "i", "m", "p", "o", "r", "t", "e", "d", "_", "r", "u", "n", "/", "S", "K", "I", "L", "L", ".", "m", "d">>

\* ---------------------------------------------------------------------
\* C19
\* ---------------------------------------------------------------------

Refused(d, p) == p \in d.denied \/ p \in d.dirs

\* C16: a write that fails is reported for that write only and the run goes
\* on.  Whatever files the disk refuses, a run that read its source calls
\* append_file once for every section with a body; the call reports a
\* failure exactly when its own file is refused; a refused file is left as
\* it was; every other destination receives all its blocks, those of the
\* sections after a failed one too; and the keywords of the text are
\* returned.
C16_WriteFailureIsLocal ==
  [][ReadRun(last') =>
       LET text == last'.text
           ss   == SectionsOf(text)
           log  == last'.appends
       IN  /\ last'.ret = TechnologiesOf(text)
           /\ Len(log) = Cardinality({k \in 1..Len(ss) : ss[k].body # <<>>})
           /\ \A k \in 1..Len(log) : log[k].ok = ~Refused(disk, log[k].dest)
           /\ \A p \in DestsOf(text) :
                IF Refused(disk, p)
                  THEN /\ (p \in DOMAIN disk'.files) = (p \in DOMAIN disk.files)
                       /\ ContentOf(disk', p) = ContentOf(disk, p)
                  ELSE /\ p \in DOMAIN disk'.files
                       /\ disk'.files[p] = ContentOf(disk, p) \o BlocksFor(text, p)
           /\ \A p \in {ArchiveFile, TechStackFile} :
                (p \in DOMAIN disk'.files) = (~Refused(disk, p))]_vars

\* The second of three appends failed, the archive could not be written,
\* and the block of the third section is in its file.
C16_Witness ==
  /\ ReadRun(last)
  /\ Len(last.appends) = 3
  /\ last.appends[1].ok
  /\ ~last.appends[2].ok
  /\ last.appends[3].ok
  /\ ArchiveFile \in disk.denied
  /\ ArchiveFile \notin DOMAIN disk.files
  /\ last.appends[2].dest \notin DOMAIN disk.files
  /\ Contains(disk.files[last.appends[3].dest], last.appends[3].content)
  /\ last.ret # {}

\* ---------------------------------------------------------------------
\* C20
\* ---------------------------------------------------------------------

\* The directories and the files the doctor requires, under project p.
RequiredDirsOf(p) ==
  {PathJoin(p, d) : d \in { <<".", "a", "g", "e", "n", "t", "/", "r", "u", "l", "e", "s">>, <<".", "a", "g", "e", "n", "t", "/", "w", "o", "r", "k", "f", "l", "o", "w", "s">>,
                             <<".", "a", "g", "e", "n", "t", "/", "s", "k", "i", "l", "l", "s">>, <<".", "a", "g", "e", "n", "t", "/", "m", "e", "m", "o", "r", "y">> }}

RequiredFilesOf(p) ==
  {PathJoin(p, f) : f \in { <<".", "a", "g", "e", "n", "t", "/", "r", "u", "l", "e", "s", "/", "0", "0", "_", "i", "d", "e", "n", "t", "i", "t", "y", ".", "m", "d">>,
                             <<".", "a", "g", "e", "n", "t", "/", "r", "u", "l", "e", "s", "/", "0", "2", "_", "s", "e", "c", "u", "r", "i", "t", "y", ".", "m", "d">>,
                             <<".", "a", "g", "e", "n", "t", "/", "w", "o", "r", "k", "f", "l", "o", "w", "s", "/", "p", "l", "a", "n", ".", "m", "d">>,
                             <<"a", "n", "t", "i", "g", "r", "a", "v", "i", "t", "y", "_", "m", "a", "s", "t", "e", "r", "_", "s", "e", "t", "u", "p", ".", "p", "y">> }}

\* Path p is on disk d, as a file or as a directory.
OnDisk(d, p) == p \in DOMAIN d.files \/ p \in d.dirs

\* C20: doctor_project returns False when the project directory does not
\* exist, with or without fix; and without fix it returns False whenever a
\* required directory or a required file is missing.
C20_DoctorFindsMissing ==
  [][ last'.op = "doctor_project" =>
        LET p == last'.project_path
        IN  /\ ~OnDisk(disk, p) => ~last'.ret
            /\ (/\ ~last'.fix
                /\ \E q \in RequiredDirsOf(p) \cup RequiredFilesOf(p) : ~OnDisk(disk, q))
                 => ~last'.ret ]_vars

\* The doctor ran without fix on a project that lacks nothing but plan.md,
\* reported that one issue and returned False.
C20_Witness ==
  /\ last.op = "doctor_project"
  /\ ~last.fix
  /\ ~last.ret
  /\ OnDisk(disk, last.project_path)
  /\ \A q \in RequiredDirsOf(last.project_path) : OnDisk(disk, q)
  /\ {q \in RequiredFilesOf(last.project_path) : ~OnDisk(disk, q)}
       = {PathJoin(last.project_path, <<".", "a", "g", "e", "n", "t", "/", "w", "o", "r", "k", "f", "l", "o", "w", "s", "/", "p", "l", "a", "n", ".", "m", "d">>)}
  /\ Len(last.issues) = 1

\* ---------------------------------------------------------------------
\* C17
\* ---------------------------------------------------------------------

\* The call was a generate_project that was not cancelled.
Generated(l) == l.op = "generate_project" /\ ~l.cancelled

\* What the caller, the blueprint and the brain dump name together.
NamedStack(l) ==
  Range(l.keywords) \cup Range(l.blueprint_stack) \cup l.detected_stack

DuplicateFree(s) == \A i, j \in 1..Len(s) : s[i] = s[j] => i = j

\* The files in which the agent generator and the GitHub generator write
\* down the stack they were handed.
TechStackRuleFile == <<"p", "r", "o", "j", "/", ".", "a", "g", "e", "n", "t", "/", "r", "u", "l", "e", "s", "/", "0", "1", "_", "t", "e", "c", "h", "_", "s", "t", "a", "c", "k", ".", "m", "d">>

CopilotFile == <<"p", "r", "o", "j", "/", ".", "g", "i", "t", "h", "u", "b", "/", "c", "o", "p", "i", "l", "o", "t", "-", "i", "n", "s", "t", "r", "u", "c", "t", "i", "o", "n", "s", ".", "m", "d">>

\* The generators that ran in overwrite mode wrote stack s down.
ShownInFiles(d, s) ==
  /\ Contains(d.files[TechStackRuleFile],
              <<"K", "e", "y", "w", "o", "r", "d", "s", " ", "D", "e", "t", "e", "c", "t", "e", "d", ":", " ">> \o Join(<<",", " ">>, s) \o <<"\n">>)
  /\ Contains(d.files[CopilotFile], <<"u", "s", "e", "s", " ", "*", "*">> \o Join(<<",", " ">>, s) \o <<"*", "*">>)

\* C17 as stated: the stack handed to the generators is the duplicate-free
\* union of the caller's keywords, the blueprint's stack and the keywords
\* of the brain dump; it is ['linux'] exactly when that union is empty;
\* and it is never empty.
C17_LinuxExactlyWhenEmpty ==
  Generated(last) =>
    /\ DuplicateFree(last.final_stack)
    /\ NamedStack(last) # {} => Range(last.final_stack) = NamedStack(last)
    /\ (last.final_stack = << <<"l", "i", "n", "u", "x">> >>) <=> (NamedStack(last) = {})
    /\ last.final_stack # <<>>
    /\ ~last.safe_mode => ShownInFiles(disk, last.final_stack)

\* C17: the stack handed to the generators is never empty and has no
\* duplicate; it holds exactly the caller's keywords, the blueprint's
\* stack and the keywords of the brain dump when there are any, and is
\* ['linux'] when there are none.  So it is ['linux'] exactly when nothing
\* but linux was named.  In overwrite mode the files of the agent
\* generator and of the GitHub generator show that same stack.
C17_StackIsUnionOrLinux ==
  Generated(last) =>
    /\ DuplicateFree(last.final_stack)
    /\ NamedStack(last) # {} => Range(last.final_stack) = NamedStack(last)
    /\ NamedStack(last) = {} => last.final_stack = << <<"l", "i", "n", "u", "x">> >>
    /\ (last.final_stack = << <<"l", "i", "n", "u", "x">> >>) <=> (NamedStack(last) \subseteq { <<"l", "i", "n", "u", "x">> })
    /\ last.final_stack # <<>>
    /\ ~last.safe_mode => ShownInFiles(disk, last.final_stack)

\* The caller named python twice, the blueprint python and rust, the brain
\* dump linux: three keywords were handed over, and the files show them.
C17_Witness ==
  /\ Generated(last)
  /\ last.keywords = << <<"p", "y", "t", "h", "o", "n">>, <<"p", "y", "t", "h", "o", "n">> >>
  /\ last.blueprint_stack = << <<"p", "y", "t", "h", "o", "n">>, <<"r", "u", "s", "t">> >>
  /\ last.detected_stack = { <<"l", "i", "n", "u", "x">> }
  /\ Len(last.final_stack) = 3
  /\ ~last.safe_mode
  /\ ShownInFiles(disk, last.final_stack)

\* ---------------------------------------------------------------------
\* C18
\* ---------------------------------------------------------------------

\* C18: a generate_project run in safe mode (safe_mode=True, or the answer
\* 'u' at the prompt) leaves every file that was under the project
\* directory before it in place and with the content it had.
C18_SafeModeKeepsFiles ==
  [][ (Generated(last') /\ last'.safe_mode) =>
        \A p \in DOMAIN disk.files :
           p \in DOMAIN disk'.files /\ disk'.files[p] = disk.files[p] ]_vars

\* ---------------------------------------------------------------------
\* C21
\* ---------------------------------------------------------------------

\* The required files that have a built-in template, under project p, each
\* with the text of its template.
TemplatedFilesOf(p) ==
  { [path |-> PathJoin(p, <<".", "a", "g", "e", "n", "t", "/", "r", "u", "l", "e", "s", "/", "0", "0", "_", "i", "d", "e", "n", "t", "i", "t", "y", ".", "m", "d">>),
     template |-> ContentOfEntry(AGENT_RULES, <<"0", "0", "_", "i", "d", "e", "n", "t", "i", "t", "y", ".", "m", "d">>)],
    [path |-> PathJoin(p, <<".", "a", "g", "e", "n", "t", "/", "r", "u", "l", "e", "s", "/", "0", "2", "_", "s", "e", "c", "u", "r", "i", "t", "y", ".", "m", "d">>),
     template |-> ContentOfEntry(AGENT_RULES, <<"0", "2", "_", "s", "e", "c", "u", "r", "i", "t", "y", ".", "m", "d">>)],
    [path |-> PathJoin(p, <<".", "a", "g", "e", "n", "t", "/", "w", "o", "r", "k", "f", "l", "o", "w", "s", "/", "p", "l", "a", "n", ".", "m", "d">>),
     template |-> ContentOfEntry(AGENT_WORKFLOWS, <<"p", "l", "a", "n", ".", "m", "d">>)] }

\* File p is missing from disk d or is there without content.
MissingOrEmpty(d, p) == ~OnDisk(d, p) \/ (p \in DOMAIN d.files /\ d.files[p] = <<>>)

\* The step is a call doctor_project(p, fix).
DoctorCall(p, fix) ==
  /\ history' = Append(history, p)
  /\ last'.op = "doctor_project"
  /\ last'.project_path = p
  /\ last'.fix = fix

\* C21: after doctor_project with fix=True on an existing project
\* directory every required directory exists, every required file with a
\* built-in template that was missing or empty holds the text of its
\* template, and the call returns True whenever it repaired something.
C21_FixRepairs ==
  [][ \A p \in DoctorPaths :
        (DoctorCall(p, TRUE) /\ OnDisk(disk, p)) =>
          /\ \A q \in RequiredDirsOf(p) : q \in disk'.dirs
          /\ \A t \in TemplatedFilesOf(p) :
               MissingOrEmpty(disk, t.path) =>
                 /\ t.path \in DOMAIN disk'.files
                 /\ disk'.files[t.path] = t.template
          /\ disk' # disk => last'.ret ]_vars

\* The doctor ran with fix on a project that had no .agent/workflows and
\* an empty identity rule: the directory is there now, plan.md and the
\* identity rule hold their templates, and the call returned True.
C21_Witness ==
  /\ last.op = "doctor_project"
  /\ last.fix
  /\ last.ret
  /\ \E i \in 1..Len(last.issues) :
        last.issues[i] = CrossMark \o <<" ", "M", "i", "s", "s", "i", "n", "g", ":", " ", ".", "a", "g", "e", "n", "t", "/", "w", "o", "r", "k", "f", "l", "o", "w", "s", "/">>
  /\ \E i \in 1..Len(last.fixed) :
        last.fixed[i] = Wrench \o <<" ", "R", "e", "s", "t", "o", "r", "e", "d", " ", "c", "o", "n", "t", "e", "n", "t", " ", "t", "o", " ", ".", "a", "g", "e", "n", "t", "/", "r", "u", "l", "e", "s", "/", "0", "0", "_", "i", "d", "e", "n", "t", "i", "t", "y", ".", "m", "d">>
  /\ \A q \in RequiredDirsOf(last.project_path) : q \in disk.dirs
  /\ \A t \in TemplatedFilesOf(last.project_path) :
        t.path \in DOMAIN disk.files /\ disk.files[t.path] = t.template

\* ---------------------------------------------------------------------
\* C25
\* ---------------------------------------------------------------------

\* C25: whenever doctor_project returns True, with or without fix, every
\* required directory and every required file (the master script too)
\* exists when the call returns, and a second call with the same arguments
\* right after it returns True as well.
C25_TrueMeansHealthy ==
  [][ \A p \in DoctorPaths, fix \in BOOLEAN :
        (DoctorCall(p, fix) /\ last'.ret) =>
          /\ \A q \in RequiredDirsOf(p) \cup RequiredFilesOf(p) : OnDisk(disk', q)
          /\ doctor_project(disk', p, fix).ret ]_vars

\* ---------------------------------------------------------------------
\* C26
\* ---------------------------------------------------------------------

\* The optional project files, under project p.
OptionalFilesOf(p) ==
  {[name |-> f, path |-> PathJoin(p, f)] :
     f \in { <<".", "g", "i", "t", "i", "g", "n", "o", "r", "e">>, <<"R", "E", "A", "D", "M", "E", ".", "m", "d">>, <<"C", "H", "A", "N", "G", "E", "L", "O", "G", ".", "m", "d">>, <<"C", "O", "N", "T", "R", "I", "B", "U", "T", "I", "N", "G", ".", "m", "d">>,
             <<"A", "U", "D", "I", "T", ".", "m", "d">>, <<"S", "E", "C", "U", "R", "I", "T", "Y", ".", "m", "d">>, <<"C", "O", "D", "E", "_", "O", "F", "_", "C", "O", "N", "D", "U", "C", "T", ".", "m", "d">>, <<"L", "I", "C", "E", "N", "S", "E">> }}

\* One of the messages of list msgs is about the file called name.
Mentions(msgs, name) ==
  \E i \in 1..Len(msgs) : EndsWith(msgs[i], <<" ">> \o name)
                            \/ Contains(msgs[i], <<" ">> \o name \o <<" ">>)

\* C26: doctor_project reports a missing optional project file as a
\* warning and not as an issue, and it returns True for a project whose
\* required directories and files are all there (none of them empty), even
\* when optional files are missing.
C26_OptionalIsWarning ==
  [][ \A p \in DoctorPaths, fix \in BOOLEAN :
        (DoctorCall(p, fix) /\ OnDisk(disk, p)) =>
          /\ \A f \in OptionalFilesOf(p) :
               ~OnDisk(disk, f.path) =>
                 /\ Mentions(last'.warnings, f.name)
                 /\ ~Mentions(last'.issues, f.name)
          /\ (\A q \in RequiredDirsOf(p) \cup RequiredFilesOf(p) : OnDisk(disk, q))
               => last'.ret ]_vars

\* ---------------------------------------------------------------------
\* C29
\* ---------------------------------------------------------------------

\* The required directories of project p with the directories above them.
RepairDirsOf(p) == UNION {MakeDirs(q) : q \in RequiredDirsOf(p)}

\* The files whose content differs between disk d and disk e, or that only
\* one of them holds.
ChangedFiles(d, e) ==
  {q \in DOMAIN d.files \cup DOMAIN e.files :
     \/ q \notin DOMAIN d.files
     \/ q \notin DOMAIN e.files
     \/ d.files[q] # e.files[q]}

\* The markers a repaired directory gets: .gitkeep in a required directory
\* of project p that disk d did not hold.
MarkersOf(d, p) ==
  {PathJoin(q, <<".", "g", "i", "t", "k", "e", "e", "p">>) : q \in {r \in RequiredDirsOf(p) : ~OnDisk(d, r)}}

\* The call kept every directory and every file, and every file that had
\* content kept it; it made only directories the project requires that
\* were missing; and every file it wrote is one of set allowed or a file
\* with a template that was missing or empty.
RepairsOnly(p, allowed) ==
  /\ disk.dirs \subseteq disk'.dirs
  /\ DOMAIN disk.files \subseteq DOMAIN disk'.files
  /\ \A q \in DOMAIN disk.files : disk.files[q] # <<>> => disk'.files[q] = disk.files[q]
  /\ disk'.dirs \ disk.dirs \subseteq RepairDirsOf(p)
  /\ \A q \in ChangedFiles(disk, disk') :
       \/ q \in allowed
       \/ \E t \in TemplatedFilesOf(p) : t.path = q /\ MissingOrEmpty(disk, q)

\* C29: doctor_project with fix=False creates, modifies and deletes
\* nothing; with fix=True it writes only directories that were missing and
\* files that were missing or empty and have a non-empty template, and it
\* never changes the content of an existing non-empty file.
C29_OnlyRepairs ==
  [][ \A p \in DoctorPaths :
        /\ DoctorCall(p, FALSE) => disk' = disk
        /\ DoctorCall(p, TRUE) => RepairsOnly(p, {}) ]_vars

\* C29 as the code has it: with fix=False nothing changes; with fix=True
\* the call makes only required directories that were missing, puts an
\* empty .gitkeep into each of them, and writes besides only files that
\* were missing or empty and have a non-empty template; no existing
\* non-empty file changes and nothing is deleted.
C29_OnlyRepairsAndMarkers ==
  [][ \A p \in DoctorPaths :
        /\ DoctorCall(p, FALSE) => disk' = disk
        /\ DoctorCall(p, TRUE) =>
             /\ RepairsOnly(p, MarkersOf(disk, p))
             /\ OnDisk(disk, p) =>
                  \A q \in MarkersOf(disk, p) :
                     q \in DOMAIN disk'.files /\ disk'.files[q] = <<>> ]_vars

\* The doctor ran with fix on a project whose .agent/memory was missing
\* and whose security rule was empty: the directory holds its marker, the
\* rule holds its template, and the files the user filled are as they were.
C29_Witness ==
  /\ last.op = "doctor_project"
  /\ last.fix
  /\ last.fixed = << Wrench \o <<" ", "C", "r", "e", "a", "t", "e", "d", " ", ".", "a", "g", "e", "n", "t", "/", "m", "e", "m", "o", "r", "y", "/">>,
                     Wrench \o <<" ", "R", "e", "s", "t", "o", "r", "e", "d", " ", "c", "o", "n", "t", "e", "n", "t", " ", "t", "o", " ", ".", "a", "g", "e", "n", "t", "/", "r", "u", "l", "e", "s", "/", "0", "2", "_", "s", "e", "c", "u", "r", "i", "t", "y", ".", "m", "d">> >>
  /\ \A f \in { <<".", "a", "g", "e", "n", "t", "/", "m", "e", "m", "o", "r", "y", "/", ".", "g", "i", "t", "k", "e", "e", "p">>, <<".", "a", "g", "e", "n", "t", "/", "r", "u", "l", "e", "s", "/", "0", "0", "_", "i", "d", "e", "n", "t", "i", "t", "y", ".", "m", "d">>,
                 <<"R", "E", "A", "D", "M", "E", ".", "m", "d">> } :
        PathJoin(last.project_path, f) \in DOMAIN disk.files
  /\ disk.files[PathJoin(last.project_path, <<".", "a", "g", "e", "n", "t", "/", "m", "e", "m", "o", "r", "y", "/", ".", "g", "i", "t", "k", "e", "e", "p">>)] = <<>>
  /\ disk.files[PathJoin(last.project_path, <<".", "a", "g", "e", "n", "t", "/", "r", "u", "l", "e", "s", "/", "0", "0", "_", "i", "d", "e", "n", "t", "i", "t", "y", ".", "m", "d">>)] = <<"t", "e", "x", "t">>
  /\ disk.files[PathJoin(last.project_path, <<"R", "E", "A", "D", "M", "E", ".", "m", "d">>)] = <<"t", "e", "x", "t">>

\* ---------------------------------------------------------------------
\* C22
\* ---------------------------------------------------------------------

\* The characters a sanitized name is made of.
SafeNameChars == UpperSet \cup LowerSet \cup Digits \cup {"_", "-"}

\* The step sanitizes a name the caller gave (not an earlier result).
FirstSanitize == last = NoCall /\ last'.op = "sanitize_name"

\* The result of the step is a safe name: not empty, made of letters,
\* digits, '_' and '-' only (so without separator and without dot).
SafeResult ==
  /\ last'.ret # <<>>
  /\ Range(last'.ret) \subseteq SafeNameChars

\* Sanitizing a result again returns it unchanged.
SanitizeAgainSame ==
  (last.op = "sanitize_name" /\ last'.op = "sanitize_name" /\ history' # history)
    => last'.ret = last.ret

\* The number of whitespace runs inside name v (those at its ends are
\* stripped).
InnerRuns(v) ==
  LET s == Strip(v)
  IN  Cardinality({i \in 1..Len(s) : s[i] \in Whitespace /\ s[i - 1] \notin Whitespace})

\* C22: the result of sanitize_name is non-empty and made only of letters,
\* digits, '_' and '-'; None, the empty string and a name with no allowed
\* character give 'antigravity-project'; and sanitizing a result again
\* returns it unchanged.
C22_SanitizeSafe ==
  [][ /\ last'.op = "sanitize_name" => SafeResult
      /\ (/\ FirstSanitize
          /\ \/ last'.name.none
             \/ Range(last'.name.value) \cap SafeNameChars = {})
           => last'.ret = <<"a", "n", "t", "i", "g", "r", "a", "v", "i", "t", "y", "-", "p", "r", "o", "j", "e", "c", "t">>
      /\ SanitizeAgainSame ]_vars

\* C22 as the code has it: the result is always a safe name and sanitizing
\* it again returns it unchanged; None and the empty string give
\* 'antigravity-project'; a name with no allowed character gives
\* 'antigravity-project' when it has no whitespace between its characters,
\* and otherwise one underscore for every run of whitespace inside it.
C22_SanitizeSafeOrUnderscores ==
  [][ /\ last'.op = "sanitize_name" => SafeResult
      /\ (FirstSanitize /\ (last'.name.none \/ last'.name.value = <<>>))
           => last'.ret = <<"a", "n", "t", "i", "g", "r", "a", "v", "i", "t", "y", "-", "p", "r", "o", "j", "e", "c", "t">>
      /\ (/\ FirstSanitize
          /\ ~last'.name.none
          /\ Range(last'.name.value) \cap SafeNameChars = {})
           => last'.ret = IF InnerRuns(last'.name.value) = 0
                            THEN <<"a", "n", "t", "i", "g", "r", "a", "v", "i", "t", "y", "-", "p", "r", "o", "j", "e", "c", "t">>
                            ELSE Repeat(<<"_">>, InnerRuns(last'.name.value))
      /\ SanitizeAgainSame ]_vars

\* The name '/.Z' lost its separator and its dot, and the result 'Z' was
\* sanitized again and came back unchanged.
C22_Witness ==
  /\ input.fn = "sanitize_name"
  /\ ~input.name.none
  /\ input.name.value = <<"/", ".", "Z">>
  /\ Len(history) = 2
  /\ last.name.value = <<"Z">>
  /\ last.ret = <<"Z">>

\* ---------------------------------------------------------------------
\* C27
\* ---------------------------------------------------------------------

\* The step is a call of generate_project.
GenerateCall == last'.op = "generate_project" /\ history' # history

\* What C27 says of a call that finds the project directory with
\* safe_mode=None, for the answers as the comparison reads them: 'u' gives
\* safe mode, 'o' and then 'yes' overwrite mode, anything else cancels and
\* changes nothing.  Of the other calls: no prompt, and the mode is the one
\* given, or overwrite when none was.
ModeSelected(choice, confirm) ==
  IF input.safe_mode.none /\ OnDisk(disk, input.project_name)
    THEN /\ last'.prompted
         /\ IF choice = <<"u">> THEN ~last'.cancelled /\ last'.ret /\ last'.safe_mode
            ELSE IF choice = <<"o">> /\ confirm = <<"y", "e", "s">>
              THEN ~last'.cancelled /\ last'.ret /\ ~last'.safe_mode
            ELSE last'.cancelled /\ ~last'.ret /\ disk' = disk
    ELSE /\ ~last'.prompted
         /\ ~last'.cancelled
         /\ last'.safe_mode = (IF input.safe_mode.none THEN FALSE
                               ELSE input.safe_mode.value)

\* C27: when generate_project is called with safe_mode=None for an
\* existing project directory, the answer 'u' selects safe mode, the answer
\* 'o' followed by 'yes' selects overwrite mode and every other answer
\* sequence cancels, the call returning False with nothing created or
\* modified; when the directory does not exist or safe_mode is given, no
\* prompt is shown and the mode is overwrite, respectively the given value.
C27_ModeSelection ==
  [][ GenerateCall => ModeSelected(input.choice, input.confirm) ]_vars

\* C27 as the code has it: both answers are compared in lower case, so 'U'
\* selects safe mode as 'u' does and 'O' with 'YES' overwrite mode; every
\* answer sequence that is neither cancels with nothing changed.
C27_ModeSelectionAnyCase ==
  [][ GenerateCall => ModeSelected(Lower(input.choice), Lower(input.confirm)) ]_vars

\* The project was there and the caller gave no mode: the answer 'o' was
\* not confirmed with 'yes', the call was cancelled and returned False.
C27_Witness ==
  /\ last.op = "generate_project"
  /\ input.safe_mode.none
  /\ input.choice = <<"o">>
  /\ input.confirm = <<"n", "o">>
  /\ last.prompted
  /\ last.cancelled
  /\ ~last.ret
  /\ disk = UserDisk

\* ---------------------------------------------------------------------
\* C30
\* ---------------------------------------------------------------------

\* The blocks the text of a run adds to path p, one by one in document
\* order.
BlockListFor(text, p) ==
  LET Wanted(s) == s.body # <<>> /\ DestOf(s) = p
      ss == SelectSeq(SectionsOf(text), Wanted)
  IN  [k \in 1..Len(ss) |-> BlockOf(ss[k])]

\* Text c is made of the blocks of list a and of list b, every block whole
\* and each list in its order.
RECURSIVE IsInterleaving(_, _, _)
IsInterleaving(c, a, b) ==
  \/ c = <<>> /\ a = <<>> /\ b = <<>>
  \/ /\ a # <<>>
     /\ IsPrefix(a[1], c)
     /\ IsInterleaving(SubSeq(c, Len(a[1]) + 1, Len(c)), Tail(a), b)
  \/ /\ b # <<>>
     /\ IsPrefix(b[1], c)
     /\ IsInterleaving(SubSeq(c, Len(b[1]) + 1, Len(c)), a, Tail(b))

\* Both runs have returned.
BothDone == \A p \in Pids : procs[p].pc = "done"

\* C30: when two process_brain_dump runs that execute side by side on one
\* base directory have both finished, every destination file holds what it
\* held before, followed by every block of both runs for it: no block is
\* lost, the blocks of the two runs may alternate, and the blocks of one
\* run are in the order of its document.
C30_NoBlockLost ==
  BothDone =>
    \A p \in (DOMAIN disk.files) \cup DestsOf(procs[1].full_text)
               \cup DestsOf(procs[2].full_text) :
       p \notin {raw_dest(BaseDir), tech_stack_path(BaseDir)} =>
         /\ p \in DOMAIN disk.files
         /\ IsPrefix(InitialContent(p), disk.files[p])
         /\ IsInterleaving(SubSeq(disk.files[p], Len(InitialContent(p)) + 1,
                                  Len(disk.files[p])),
                           BlockListFor(procs[1].full_text, p),
                           BlockListFor(procs[2].full_text, p))

\* Both runs read the document with two sections for one file and have
\* finished: the file holds the first block of each run and then the second
\* block of each, which no run after the other would give.
C30_Witness ==
  /\ BothDone
  /\ \A p \in Pids : procs[p].filepath = StrArg(SrcA) /\ Len(procs[p].blocks) = 2
  /\ LET dest == procs[1].blocks[1].dest
         b1 == BlockOf([header |-> procs[1].blocks[1].header,
                        body |-> procs[1].blocks[1].content])
         b2 == BlockOf([header |-> procs[1].blocks[2].header,
                        body |-> procs[1].blocks[2].content])
     IN  /\ b1 # b2
         /\ dest \in DOMAIN disk.files
         /\ disk.files[dest] = b1 \o b1 \o b2 \o b2

\* ---------------------------------------------------------------------
\* main, run_cli_mode and the presets
\* ---------------------------------------------------------------------

\* The paths of a project directory: the directory and all below it.
Under(project, path) == path = project \/ IsPrefix(project \o <<"/">>, path)

FilesUnder(d, project) ==
  [p \in {q \in DOMAIN d.files : Under(project, q)} |-> d.files[p]]

DirsUnder(d, project) == {q \in d.dirs : Under(project, q)}

DryRun(l) == l.op = "main" /\ l.mode = "cli" /\ Truthy(l.args.dry_run)

\* C24: a run of run_cli_mode with --dry-run does not call
\* generate_project, and the project directory and every file and
\* directory under it are after the run what they were before it: none is
\* created, whatever the other arguments are.
C24_DryRunCreatesNothing ==
  [][DryRun(last')
       => /\ ~last'.generate
          /\ FilesUnder(disk', last'.call.project_name)
               = FilesUnder(disk, last'.call.project_name)
          /\ DirsUnder(disk', last'.call.project_name)
               = DirsUnder(disk, last'.call.project_name)]_vars

\* A dry run for a project that does not exist: after it the project is
\* still not there, and the log of the temporary directory is.
C24_Witness ==
  /\ DryRun(last)
  /\ ~PathExists(disk, last.call.project_name)
  /\ PathJoin(TempDir, <<"a", "n", "t", "i", "g", "r", "a", "v", "i", "t", "y", "_", "s", "e", "t", "u", "p", ".", "l", "o", "g">>) \in DOMAIN disk.files

\* What a command line gives for a destination: the value given last, None
\* when the option is not on it.
GivenValue(argv, dest) ==
  LET given == {i \in 1..Len(argv) : argv[i].dest = dest}
  IN  IF given = {} THEN PyNone
      ELSE argv[CHOOSE i \in given : \A j \in given : j <= i].value

Given(argv, dest) == Truthy(GivenValue(argv, dest))

\* The preset a command line asks for is stored and holds a name.
PresetNames(ps, argv) ==
  /\ Given(argv, "preset")
  /\ GivenValue(argv, "preset").v \in DOMAIN ps
  /\ \E i \in 1..Len(ps[GivenValue(argv, "preset").v]) :
       /\ ps[GivenValue(argv, "preset").v][i].key = "name"
       /\ Len(ps[GivenValue(argv, "preset").v][i].token) > 2

NameSet(ps, argv) ==
  IF \E i \in 1..Len(argv) : argv[i].dest = "name"
    THEN Given(argv, "name")
    ELSE PresetNames(ps, argv)

ModeByPrecedence(ps, argv) ==
  IF Given(argv, "list_presets") THEN "list_presets"
  ELSE IF Given(argv, "list_keywords") THEN "list_keywords"
  ELSE IF Given(argv, "list_blueprints") THEN "list_blueprints"
  ELSE IF Given(argv, "doctor") THEN "doctor"
  ELSE IF NameSet(ps, argv) THEN "cli"
  ELSE "interactive"

ListingModes == {"list_presets", "list_keywords", "list_blueprints"}

\* C28: a run of main runs the one mode that comes first in the order
\* --list-presets, --list-keywords, --list-blueprints, --doctor, CLI
\* generation when a name is set on the command line or by the loaded
\* preset, interactive mode otherwise.  The listing modes and the doctor
\* generate no project and leave the presets as they are, the listing
\* modes leave the disk as it is, only the doctor mode runs the doctor and
\* only the two generating modes call generate_project.  With
\* --save-preset and a name the preset is stored, also when the run is a
\* dry run, and holds the arguments of the run.
C28_OneModeByPrecedence ==
  [][last'.op = "main" =>
       /\ last'.mode = ModeByPrecedence(presets, last'.argv)
       /\ last'.doctor = (last'.mode = "doctor")
       /\ last'.generate => last'.mode \in {"cli", "interactive"}
       /\ last'.mode \in ListingModes \cup {"doctor"}
            => ~last'.saved /\ presets' = presets
       /\ last'.mode \in ListingModes => disk' = disk
       /\ (last'.mode = "cli" /\ Given(last'.argv, "save_preset"))
            => /\ last'.saved
               /\ GivenValue(last'.argv, "save_preset").v \in DOMAIN presets'
               /\ presets'[GivenValue(last'.argv, "save_preset").v]
                    = json_dump(preset_data(last'.args))]_vars

\* The doctor has run for a command line that also has a name and
\* --save-preset: no preset is stored and no project was generated.
C28_Witness ==
  /\ last.op = "main"
  /\ last.mode = "doctor"
  /\ Given(last.argv, "name")
  /\ Given(last.argv, "save_preset")
  /\ GivenValue(last.argv, "save_preset").v \notin DOMAIN presets
  /\ ~PathExists(disk, GivenValue(last.argv, "name").v)

OnCommandLine(argv, dest) == \E i \in 1..Len(argv) : argv[i].dest = dest

\* The runs so far that saved the preset a command line asks for.
SavingRuns(h, argv) ==
  {i \in 1..Len(h) : /\ h[i].saved
                     /\ Given(argv, "preset")
                     /\ h[i].save_preset = GivenValue(argv, "preset").v}

\* The value a run is to use for a destination: the one of the command
\* line, else the one the last saving run stored, else the default of
\* the parser.
ValueByPrecedence(h, argv, dest) ==
  LET runs == SavingRuns(h, argv)
      stored == h[CHOOSE i \in runs : \A j \in runs : j <= i].args[dest]
  IN  IF OnCommandLine(argv, dest) THEN GivenValue(argv, dest)
      ELSE IF runs # {} /\ dest \notin OperationalFlags /\ stored # PyNone THEN stored
      ELSE build_cli_parser[dest]

\* C23: a run of main that parses its command line uses, for every option,
\* the value given on the command line if there is one, otherwise the
\* value that the last run with --save-preset P stored when the run has
\* --preset P, otherwise the default of the parser; and no stored preset
\* has a member for save_preset, preset, dry_run, list_keywords,
\* list_presets, doctor or fix.
C23_PresetPrecedence ==
  [][last'.op = "main" =>
       /\ last'.mode # "list_presets" =>
            \A dest \in DestSet :
              last'.args[dest] = ValueByPrecedence(history, last'.argv, dest)
       /\ \A p \in DOMAIN presets' :
            \A i \in 1..Len(presets'[p]) : presets'[p][i].key \notin OperationalFlags]_vars

\* A project was generated with --preset P after a run that saved P with
\* the license gpl and a stack: the license and the mode are the ones of
\* the command line, the name and the stack are the stored ones, and the
\* blueprint is the default.
C23_Witness ==
  /\ last.op = "main"
  /\ Len(history) = 2
  /\ SavingRuns(SubSeq(history, 1, 1), last.argv) = {1}
  /\ last.mode = "cli" /\ last.generate
  /\ last.args.license = PyStr(<<"m", "i", "t">>)
  /\ history[1].args.license = PyStr(<<"g", "p", "l">>)
  /\ last.args.safe = PyBool(TRUE)
  /\ history[1].args.safe = PyBool(FALSE)
  /\ ~OnCommandLine(last.argv, "stack")
  /\ last.args.stack = history[1].args.stack
  /\ last.args.stack # PyNone
  /\ ~OnCommandLine(last.argv, "name")
  /\ last.args.name = PyStr(BaseDir)
  /\ last.args.blueprint = PyNone
  /\ last.call.license_type = "mit"
  /\ last.call.keywords = << <<"p", "y", "t", "h", "o", "n">>, <<"l", "i", "n", "u", "x">> >>

====
